---------------------------- MODULE Spec2Model ----------------------------
(***************************************************************************)
(* A model of src/src/ali_core/intent.py (class AliIntent): the intent     *)
(* classifier, the one-shot task queue, the recurring-task table, the      *)
(* behavior ledger and the background scheduler loop that runs             *)
(* concurrently with the foreground API.                                   *)
(*                                                                         *)
(* Conventions                                                             *)
(*   - time is an integer number of hours (datetime.now());                *)
(*   - confidences are integers in hundredths (0.8 is 80);                 *)
(*   - Python list positions are 0-based, TLA+ sequences 1-based: an index *)
(*     i of the code is position i + 1 of the sequence;                    *)
(*   - a dict object is identified by its id field (Python object          *)
(*     identity); a key that is absent from a dict has the value Absent.   *)
(***************************************************************************)
EXTENDS Integers, Sequences, FiniteSets, TLC

\* ------------------------------------------------------------------------
\* Bounds of the model
\* ------------------------------------------------------------------------
\* the task queue with its worker (SpecQueue)
QueueTasks == 2
QueueTime == 1
QueueCycles == 2
\* the foreground calls alone (SpecStore)
StoreTasks == 3
StoreRecurring == 2
StoreInputs == 1
\* the recurring table with its worker (SpecRecurring)
RecurringRecords == 1
RecurringFirings == 2
RecurringTime == 2
RecurringCycles == 3
\* the classifier (SpecClassify)
MaxWords == 2
\* the engine saved and loaded again (SpecPersist)
PersistTasks == 2
PersistRecurring == 1
PersistCycles == 1
PersistPatterns == 1
\* process_input on an engine with a recurring record and patterns
InputCalls == 1
InputTasks == 2
InputRecurring == 1
InputCycles == 1
InputPatterns == 1
\* a full ledger to which the worker and the foreground append
RaceRecords == 205
RaceReminders == 1
RaceTasks == 2
RaceCycles == 1
\* patterns found, written, edited in the file and loaded
MinedPatterns == 2
MinedCycles == 2
\* tasks that fail and are attempted again
RetryTasks == 2
RetryCycles == 2
\* the whole cycle of the worker, with tasks, a recurring record, patterns
\* and the periodic save
CycleTasks == 2
CycleRecurring == 1
CycleCycles == 2
CyclePatterns == 1
\* records that are deactivated beside the recurring sweep
ActiveRecords == 1
ActiveFirings == 1
ActiveCycles == 2
ActiveTime == 1
\* the classifier beside a worker that finds patterns
ConfidenceCalls == 1
ConfidenceTasks == 1
ConfidenceCycles == 1
ConfidencePatterns == 2
\* the ledger filled by process_input beside a worker whose cycle saves
LedgerRecords == 104
LedgerCycles == 1
LedgerTasks == 1
\* the calls and the worker beside a file that cannot always be written
FailureTasks == 1
FailureRecurring == 1
FailureCycles == 1
\* construction from a file that may be damaged or edited
FileTasks == 1
FileRecurring == 1
FileInputs == 1
\* the getters beside the calls that change the lists
ViewTasks == 2
ViewRecurring == 1
\* the loop of the worker beside start, stop and add_task
LoopTasks == 2
LoopCycles == 2
\* the recurring table beside remove_task and the worker
TableRecords == 2
TableFirings == 2
TableCycles == 2
\* the classifier called on a running engine (SpecIntent)
IntentCalls == 2
IntentTasks == 1
IntentCycles == 1
IntentPatterns == 1

\* ------------------------------------------------------------------------
\* Values
\* ------------------------------------------------------------------------
\* a key that is not in the dict
Absent == -1
\* a scheduled_time string that datetime.fromisoformat cannot parse
BadTime == -2

HistoryLimit == 200
SaveHistoryLimit == 100
HoursPerDay == 24
DaysPerWeek == 7

Min(a, b) == IF a <= b THEN a ELSE b

\* the last n elements of s: s[-n:]
LastN(s, n) == IF Len(s) <= n THEN s ELSE SubSeq(s, Len(s) - n + 1, Len(s))

\* del s[i] / s.pop(i) for a 0-based index i
RemoveAt(s, i) == SubSeq(s, 1, i) \o SubSeq(s, i + 2, Len(s))

Ids(s) == [k \in 1..Len(s) |-> s[k].id]

IdSet(s) == {s[k].id : k \in 1..Len(s)}

RECURSIVE SelectSeq2(_, _)
\* the subsequence of s whose ids are in keep, in order
SelectSeq2(s, keep) ==
    IF s = <<>> THEN <<>>
    ELSE IF Head(s).id \in keep THEN <<Head(s)>> \o SelectSeq2(Tail(s), keep)
         ELSE SelectSeq2(Tail(s), keep)

\* ------------------------------------------------------------------------
\* Intent classifier (_recognize_intent, _refine_intent_with_context)
\* A text is a sequence of words separated by single blanks.
\* ------------------------------------------------------------------------
Vocabulary ==
    {"Remind", "remember", "meeting", "find", "look", "up", "call", "help",
     "how", "to", "at", "5pm", "weather", "on", "may", "5"}

\* str.lower() on one word
LowerWord(w) == IF w = "Remind" THEN "remind" ELSE w

\* text.lower()
Lower(text) == [k \in 1..Len(text) |-> LowerWord(text[k])]

\* r'\b(remind|reminder|remember)\b'
ReminderWords == {"remind", "reminder", "remember"}
\* r'\b(schedule|appointment|meeting|calendar)\b'
CalendarWords == {"schedule", "appointment", "meeting", "calendar"}
\* r'\b(search|find|look up)\b'
SearchWords == {"search", "find"}
SearchPhrases == {<<"look", "up">>}
\* r'\b(send|message|text|call)\b'
CommunicationWords == {"send", "message", "text", "call"}
\* r'\b(help|explain|how do|how to)\b'
HelpWords == {"help", "explain"}
HelpPhrases == {<<"how", "do">>, <<"how", "to">>}

\* character classes of the words of the vocabulary
AlphaWords == Vocabulary \ {"5pm", "5"}
DigitWords == {"5"}
\* \d+[:\d]*\s*[ap]\.?m\.?
TimeWords == {"5pm"}
EndsWithAt == {"at"}
EndsWithTo == {"to"}
EndsWithOn == {"on"}

\* re.search(r'\b(w1|w2|p q)\b', t): a whole word of t, or two adjacent ones
MatchesAt(t, k, words, phrases) ==
    \/ t[k] \in words
    \/ k < Len(t) /\ <<t[k], t[k + 1]>> \in phrases

Matches(t, words, phrases) ==
    \E k \in 1..Len(t) : MatchesAt(t, k, words, phrases)

\* re.search(r'at (\d+[:\d]*\s*[ap]\.?m\.?)', t): group(1), as a set of
\* (key, value) pairs
TimeEntity(t) ==
    LET hits == {k \in 1..(Len(t) - 1) :
                    t[k] \in EndsWithAt /\ t[k + 1] \in TimeWords}
    IN  IF hits = {} THEN {}
        ELSE LET k == CHOOSE x \in hits : \A y \in hits : x <= y
             IN  {<<"time", <<t[k + 1]>> >>}

\* re.search(r'on ([a-zA-Z]+ \d+)', t): the digits may be the start of a
\* longer word ("on may 5pm" gives "may 5")
DateEntity(t) ==
    LET hits == {k \in 1..(Len(t) - 2) :
                    /\ t[k] \in EndsWithOn
                    /\ t[k + 1] \in AlphaWords
                    /\ t[k + 2] \in DigitWords \cup TimeWords}
    IN  IF hits = {} THEN {}
        ELSE LET k == CHOOSE x \in hits : \A y \in hits : x <= y
             IN  {<<"date", <<t[k + 1], "5">> >>}

\* re.search(r'(search|find|look up)\s+(?:for\s+)?(.+)', t): group(2)
QueryEntity(t) ==
    LET ends == {k \in 1..Len(t) :
                    \/ t[k] \in SearchWords /\ k < Len(t)
                    \/ /\ k > 1
                       /\ <<t[k - 1], t[k]>> \in SearchPhrases
                       /\ k < Len(t)}
    IN  IF ends = {} THEN {}
        ELSE LET k == CHOOSE x \in ends : \A y \in ends : x <= y
                 rest == SubSeq(t, k + 1, Len(t))
             IN  IF Head(rest) = "for" /\ Len(rest) > 1
                 THEN {<<"query", Tail(rest)>>}
                 ELSE {<<"query", rest>>}

\* re.search(r'to\s+([a-zA-Z]+)', t)
RecipientEntity(t) ==
    LET hits == {k \in 1..(Len(t) - 1) :
                    t[k] \in EndsWithTo /\ t[k + 1] \in AlphaWords}
    IN  IF hits = {} THEN {}
        ELSE LET k == CHOOSE x \in hits : \A y \in hits : x <= y
             IN  {<<"recipient", <<t[k + 1]>> >>}

\* context["time"] is a dict without the key "hour"
NoHour == -3

\* a context dict: time is Absent, NoHour or the hour of context["time"]
NoContext == [app |-> "none", location |-> "none", time |-> Absent]

\* line 450: context["time"].get("hour", 0)
HourOf(time) == IF time = NoHour THEN 0 ELSE time

\* the morning window with its last hour left out: "5 <= current_hour < 9"
RefineIntentHourExclusive(intent, context) ==
    LET i1 == IF context.app = "messaging" /\ intent.primary = "communication"
              THEN [intent EXCEPT !.confidence = Min(100, @ + 10)]
              ELSE intent
        i2 == IF context.app = "calendar" /\ i1.primary = "reminder"
              THEN [i1 EXCEPT !.primary = "calendar",
                              !.confidence = Min(100, @ + 5)]
              ELSE i1
        i3 == IF context.location = "home" /\ i2.primary = "reminder"
              THEN [i2 EXCEPT !.entities = @ \cup {<<"location", <<"home">> >>}]
              ELSE i2
        i4 == IF /\ context.time # Absent
                 /\ 5 <= HourOf(context.time) /\ HourOf(context.time) < 9
                 /\ i3.primary = "unknown"
              THEN [i3 EXCEPT !.primary = "morning_routine", !.confidence = 60]
              ELSE i3
    IN  i4

\* the rules with calendar tried before reminder and communication before search
MatchRulesReordered(text, context) ==
    LET t == Lower(text) IN
    IF Matches(t, CalendarWords, {})
    THEN [primary |-> "calendar", confidence |-> 75, entities |-> DateEntity(t),
          context |-> context]
    ELSE IF Matches(t, ReminderWords, {})
    THEN [primary |-> "reminder", confidence |-> 80, entities |-> TimeEntity(t),
          context |-> context]
    ELSE IF Matches(t, CommunicationWords, {})
    THEN [primary |-> "communication", confidence |-> 80,
          entities |-> RecipientEntity(t), context |-> context]
    ELSE IF Matches(t, SearchWords, SearchPhrases)
    THEN [primary |-> "search", confidence |-> 70, entities |-> QueryEntity(t),
          context |-> context]
    ELSE IF Matches(t, HelpWords, HelpPhrases)
    THEN [primary |-> "help", confidence |-> 90, entities |-> {},
          context |-> context]
    ELSE [primary |-> "unknown", confidence |-> 50, entities |-> {},
          context |-> context]

\* the if / elif chain of _recognize_intent, before the context is applied
MatchRules(text, context) ==
    LET t == Lower(text) IN
    IF Matches(t, ReminderWords, {})
    THEN [primary |-> "reminder", confidence |-> 80, entities |-> TimeEntity(t),
          context |-> context]
    ELSE IF Matches(t, CalendarWords, {})
    THEN [primary |-> "calendar", confidence |-> 75, entities |-> DateEntity(t),
          context |-> context]
    ELSE IF Matches(t, SearchWords, SearchPhrases)
    THEN [primary |-> "search", confidence |-> 70, entities |-> QueryEntity(t),
          context |-> context]
    ELSE IF Matches(t, CommunicationWords, {})
    THEN [primary |-> "communication", confidence |-> 80,
          entities |-> RecipientEntity(t), context |-> context]
    ELSE IF Matches(t, HelpWords, HelpPhrases)
    THEN [primary |-> "help", confidence |-> 90, entities |-> {},
          context |-> context]
    ELSE [primary |-> "unknown", confidence |-> 50, entities |-> {},
          context |-> context]

\* _refine_intent_with_context: four updates applied in the code's order
RefineIntentWithContext(intent, context) ==
    LET i1 == IF context.app = "messaging" /\ intent.primary = "communication"
              THEN [intent EXCEPT !.confidence = Min(100, @ + 10)]
              ELSE intent
        i2 == IF context.app = "calendar" /\ i1.primary = "reminder"
              THEN [i1 EXCEPT !.primary = "calendar",
                              !.confidence = Min(100, @ + 5)]
              ELSE i1
        i3 == IF context.location = "home" /\ i2.primary = "reminder"
              THEN [i2 EXCEPT !.entities = @ \cup {<<"location", <<"home">> >>}]
              ELSE i2
        i4 == IF /\ context.time # Absent
                 /\ 5 <= HourOf(context.time) /\ HourOf(context.time) <= 9
                 /\ i3.primary = "unknown"
              THEN [i3 EXCEPT !.primary = "morning_routine", !.confidence = 60]
              ELSE i3
    IN  i4

\* _recognize_intent(text, context): "if context:" is false for None and {}
RecognizeIntent(text, context) ==
    LET intent == MatchRules(text, context)
    IN  IF context # NoContext
        THEN RefineIntentWithContext(intent, context)
        ELSE intent

\* the texts and contexts process_input is called with in the system model
InputTexts == {<<"Remind", "at", "5pm">>, <<"remember">>, <<"weather">>}
InputContexts == {NoContext, [NoContext EXCEPT !.app = "calendar"]}

\* ------------------------------------------------------------------------
\* State
\* ------------------------------------------------------------------------
VARIABLES
    clock,              \* datetime.now(), in hours
    task_queue,         \* self.task_queue
    recurring_tasks,    \* self.recurring_tasks
    behavior_history,   \* self.behavior_history
    intent_patterns,    \* self.intent_patterns: pattern number -> type
    disk,               \* the content of data/intent/<user>_intent.json
    writable,           \* whether that file can be written
    active,             \* self.active
    thread,             \* self.background_thread and the worker's locals
    next_id,            \* the next fresh dict object
    cycles,             \* cycles begun so far
    exec_count,         \* history: executions of each task (2 = two or more)
    ret,                \* history: the foreground call that has just returned
    sw,                 \* history: the due-task sweep in progress or just ended
    rs,                 \* history: the recurring sweep in progress or just ended
    cls,                \* the classifier's last input and output
    held,               \* the list a caller holds from a getter
    thresholds          \* self.thresholds, in hundredths

vars == <<clock, task_queue, recurring_tasks, behavior_history,
          intent_patterns, disk, writable, active, thread, next_id, cycles,
          exec_count, ret, sw, rs, cls, held, thresholds>>

\* lines 38-43: the thresholds __init__ sets
DefaultThresholds ==
    [auto_complete |-> 80, suggestion |-> 60, prediction |-> 70,
     routine |-> 75]

\* form: "object" when the file holds the JSON object that was written,
\* "truncated" when it holds the beginning of it, "not_object" when it
\* holds JSON that is not an object
NoFile == [exists |-> FALSE, form |-> "object", task_queue |-> <<>>,
           recurring_tasks |-> <<>>, behavior_history |-> <<>>,
           intent_patterns |-> <<>>, thresholds |-> DefaultThresholds]

Snapshot == [task_queue |-> task_queue, recurring_tasks |-> recurring_tasks,
             behavior_history |-> behavior_history, disk |-> disk]

NoCall == [op |-> "none"]
NoSweep == [state |-> "none"]
\* orphans: the threads that run _background_loop and that
\* self.background_thread no longer names; slice: the list that
\* _record_behavior has built at line 598 and not yet assigned
NoThread == [pc |-> "none", now |-> 0, it |-> 0, to_remove |-> <<>>,
             rit |-> 0, orphans |-> 0, slice |-> <<>>]
\* which: the getter the caller's list came from; at_return: history, what
\* the list held when the getter returned it, with what the caller has done
\* to it since
NoHeld == [which |-> "none", at_return |-> <<>>]
\* seen: history, the classifications made so far, each with the length of
\* the ledger at the time
NoClassification == [called |-> FALSE, text |-> <<>>, context |-> NoContext,
                     intent |-> MatchRules(<<>>, NoContext), seen |-> <<>>]

\* the argument dicts add_task is called with: type, scheduled_time and
\* remove_on_failure, each present or absent
TaskInputs ==
    {[type |-> "none", sched |-> Absent, rof |-> "absent"],
     [type |-> "reminder", sched |-> Absent, rof |-> "absent"],
     [type |-> "reminder", sched |-> Absent, rof |-> "true"],
     [type |-> "reminder", sched |-> Absent, rof |-> "false"],
     [type |-> "reminder", sched |-> 1, rof |-> "absent"],
     [type |-> "reminder", sched |-> 1, rof |-> "false"],
     [type |-> "reminder", sched |-> BadTime, rof |-> "absent"]}

NoRecurrence ==
    [type |-> "system_task", interval_hours |-> Absent, day_of_week |-> Absent,
     hour_of_day |-> Absent, trigger_pattern |-> "none"]

\* the argument dicts add_recurring_task is called with
RecurringInputs ==
    {NoRecurrence,
     [NoRecurrence EXCEPT !.type = "none", !.interval_hours = 1],
     [NoRecurrence EXCEPT !.interval_hours = 1],
     [NoRecurrence EXCEPT !.interval_hours = 2],
     [NoRecurrence EXCEPT !.day_of_week = 0],
     [NoRecurrence EXCEPT !.day_of_week = 0, !.hour_of_day = 1],
     [NoRecurrence EXCEPT !.trigger_pattern = "research_start"],
     [NoRecurrence EXCEPT !.interval_hours = 2, !.day_of_week = 0]}

\* the engine after __init__ with no file to load
Init ==
    /\ clock = 0
    /\ task_queue = <<>>
    /\ recurring_tasks = <<>>
    /\ behavior_history = <<>>
    /\ intent_patterns = <<>>
    /\ disk = NoFile
    /\ writable = TRUE
    /\ active = TRUE
    /\ thread = NoThread
    /\ next_id = 1
    /\ cycles = 0
    /\ exec_count = <<>>
    /\ ret = NoCall
    /\ sw = NoSweep
    /\ rs = NoSweep
    /\ cls = NoClassification
    /\ held = NoHeld
    /\ thresholds = DefaultThresholds

\* ------------------------------------------------------------------------
\* Persistence (save_intent_data) and the ledger (_record_behavior)
\* ------------------------------------------------------------------------
\* lines 81-82: the history is cut to its last 100 records before the write
SaveHistory(h) == LastN(h, SaveHistoryLimit)

\* the keys of a task dict and of a recurring dict, and the value that
\* stands for a key that is not in the dict
TaskKeys == {"type", "sched", "rof"}
RecurringKeys == {"type", "interval_hours", "day_of_week", "hour_of_day",
                  "trigger_pattern", "last_execution", "active"}
NoKey ==
    [type |-> "none", sched |-> Absent, rof |-> "absent",
     interval_hours |-> Absent, day_of_week |-> Absent,
     hour_of_day |-> Absent, trigger_pattern |-> "none",
     last_execution |-> Absent, active |-> TRUE]

\* json.dump of a dict: the JSON object has the keys that are in the dict,
\* with their values; the identity of the dict object is not written
DumpObject(d, keys) ==
    [k \in {x \in keys : x = "active" \/ d[x] # NoKey[x]} |-> d[k]]

DumpList(l, keys) == [k \in 1..Len(l) |-> DumpObject(l[k], keys)]

\* json.load of a task object that drops the key remove_on_failure
LoadTaskWithoutRemoveOnFailure(o, id) ==
    [id |-> id, copy_of |-> 0,
     type |-> IF "type" \in DOMAIN o THEN o.type ELSE NoKey.type,
     sched |-> IF "sched" \in DOMAIN o THEN o.sched ELSE NoKey.sched,
     rof |-> NoKey.rof]

\* json.load of a task object: a new dict with the keys of the object
LoadTask(o, id) ==
    [id |-> id, copy_of |-> 0,
     type |-> IF "type" \in DOMAIN o THEN o.type ELSE NoKey.type,
     sched |-> IF "sched" \in DOMAIN o THEN o.sched ELSE NoKey.sched,
     rof |-> IF "rof" \in DOMAIN o THEN o.rof ELSE NoKey.rof]

\* json.load of a recurring object
LoadRecurring(o) ==
    [k \in RecurringKeys |-> IF k \in DOMAIN o THEN o[k] ELSE NoKey[k]]

\* the content save_intent_data writes: lines 84-92
FileOf(q, r, h, p) ==
    [exists |-> TRUE, form |-> "object",
     task_queue |-> DumpList(q, TaskKeys),
     recurring_tasks |-> DumpList(r, RecurringKeys),
     behavior_history |-> SaveHistory(h), intent_patterns |-> p,
     thresholds |-> thresholds]

\* the file after save_intent_data: when open or json.dump raises, the file
\* is as it was
SaveFile(q, r, h, p) == IF writable THEN FileOf(q, r, h, p) ELSE disk

\* _record_behavior with no append
RecordBehaviorDropped(h, rec) == LastN(h, HistoryLimit)

\* history: the number a record gets, which counts the records appended to
\* the ledger so far
NextSeq(h) == IF h = <<>> THEN 1 ELSE h[Len(h)].seq + 1

\* _record_behavior: append, then keep the last 200
RecordBehavior(h, rec) ==
    LastN(Append(h, [type |-> rec.type, ref |-> rec.ref,
                     seq |-> NextSeq(h)]), HistoryLimit)

\* a foreground call made while a sweep is in progress or has just ended;
\* early: the call was made while the sweep was still iterating
MarkForeground(s) ==
    IF s.state = "none" THEN s
    ELSE [s EXCEPT !.fg = TRUE, !.early = @ \/ s.state = "run"]

CountType(h, ty) == Cardinality({k \in 1..Len(h) : h[k].type = ty})

\* ------------------------------------------------------------------------
\* Foreground calls. A call takes effect in one step, at its list.append or
\* list.pop, which are atomic: a pop whose index the worker has made invalid
\* since the bounds check raises IndexError, which is caught and returns
\* False, as the failed bounds check does.
\* ------------------------------------------------------------------------
\* lines 531-541 of add_task, with no look at "type"
AddTaskUnvalidated(t) ==
    LET task == [id |-> next_id, type |-> t.type, sched |-> t.sched,
                 rof |-> t.rof, copy_of |-> 0]
        q == Append(task_queue, task)
    IN  /\ task_queue' = q
        /\ behavior_history' = SaveHistory(behavior_history)
        /\ disk' = SaveFile(q, recurring_tasks, behavior_history,
                            intent_patterns)
        /\ next_id' = next_id + 1
        /\ exec_count' = Append(exec_count, 0)
        /\ ret' = [op |-> "add_task", arg |-> t, result |-> TRUE,
                   pre |-> Snapshot]

\* add_task that returns what save_intent_data returned
AddTaskReportingSave(t) ==
    IF t.type = "none"
    THEN /\ ret' = [op |-> "add_task", arg |-> t, result |-> FALSE,
                    pre |-> Snapshot]
         /\ UNCHANGED <<task_queue, behavior_history, disk, next_id,
                        exec_count>>
    ELSE LET task == [id |-> next_id, type |-> t.type, sched |-> t.sched,
                      rof |-> t.rof, copy_of |-> 0]
             q == Append(task_queue, task)
         IN  /\ task_queue' = q
             /\ behavior_history' = SaveHistory(behavior_history)
             /\ disk' = SaveFile(q, recurring_tasks, behavior_history,
                                 intent_patterns)
             /\ next_id' = next_id + 1
             /\ exec_count' = Append(exec_count, 0)
             /\ ret' = [op |-> "add_task", arg |-> t, result |-> writable,
                        pre |-> Snapshot]

\* add_task(task_data)
AddTask(t) ==
    IF t.type = "none"
    THEN /\ ret' = [op |-> "add_task", arg |-> t, result |-> FALSE,
                    pre |-> Snapshot]
         /\ UNCHANGED <<task_queue, behavior_history, disk, next_id,
                        exec_count>>
    ELSE AddTaskUnvalidated(t)

AddTaskCall(inputs, maxTasks) ==
    /\ next_id <= maxTasks
    /\ \E t \in inputs : AddTask(t)
    /\ sw' = MarkForeground(sw)
    /\ rs' = MarkForeground(rs)
    /\ UNCHANGED <<clock, recurring_tasks, intent_patterns, writable, active,
                   thread, cycles, cls, held, thresholds>>

\* list.pop(i) with no bounds check: a negative i counts from the end
RemoveTaskUnchecked(i) ==
    LET j == IF i < 0 THEN Len(task_queue) + i ELSE i
        q == RemoveAt(task_queue, j)
    IN  IF 0 <= j /\ j < Len(task_queue)
        THEN /\ task_queue' = q
             /\ behavior_history' = SaveHistory(behavior_history)
             /\ disk' = SaveFile(q, recurring_tasks, behavior_history,
                                 intent_patterns)
             /\ ret' = [op |-> "remove_task", arg |-> i, result |-> TRUE,
                        pre |-> Snapshot]
        ELSE /\ ret' = [op |-> "remove_task", arg |-> i, result |-> FALSE,
                        pre |-> Snapshot]
             /\ UNCHANGED <<task_queue, behavior_history, disk>>

\* list.pop(i + 1): the bounds check passes, the wrong element goes
RemoveTaskOffByOne(i) ==
    IF 0 <= i /\ i < Len(task_queue)
    THEN LET q == RemoveAt(task_queue,
                           IF i + 1 < Len(task_queue) THEN i + 1 ELSE i)
         IN  /\ task_queue' = q
             /\ behavior_history' = SaveHistory(behavior_history)
             /\ disk' = SaveFile(q, recurring_tasks, behavior_history,
                                 intent_patterns)
             /\ ret' = [op |-> "remove_task", arg |-> i, result |-> TRUE,
                        pre |-> Snapshot]
    ELSE /\ ret' = [op |-> "remove_task", arg |-> i, result |-> FALSE,
                    pre |-> Snapshot]
         /\ UNCHANGED <<task_queue, behavior_history, disk>>

\* remove_task(task_id)
RemoveTask(i) ==
    IF 0 <= i /\ i < Len(task_queue)
    THEN LET q == RemoveAt(task_queue, i)
         IN  /\ task_queue' = q
             /\ behavior_history' = SaveHistory(behavior_history)
             /\ disk' = SaveFile(q, recurring_tasks, behavior_history,
                                 intent_patterns)
             /\ ret' = [op |-> "remove_task", arg |-> i, result |-> TRUE,
                        pre |-> Snapshot]
    ELSE /\ ret' = [op |-> "remove_task", arg |-> i, result |-> FALSE,
                    pre |-> Snapshot]
         /\ UNCHANGED <<task_queue, behavior_history, disk>>

\* slack = 1 adds the two nearest invalid indices, -1 and len
RemoveTaskCall(slack) ==
    /\ \E i \in (0 - slack)..(Len(task_queue) - 1 + slack) : RemoveTask(i)
    /\ sw' = MarkForeground(sw)
    /\ rs' = MarkForeground(rs)
    /\ UNCHANGED <<clock, recurring_tasks, intent_patterns, writable, active,
                   thread, next_id, cycles, exec_count, cls, held, thresholds>>

\* add_recurring_task with its check of the type only
AddRecurringTaskAnyRecurrence(r) ==
    IF r.type = "none"
    THEN /\ ret' = [op |-> "add_recurring_task", arg |-> r, result |-> FALSE,
                    pre |-> Snapshot]
         /\ UNCHANGED <<recurring_tasks, behavior_history, disk>>
    ELSE LET rec == [type |-> r.type, interval_hours |-> r.interval_hours,
                     day_of_week |-> r.day_of_week,
                     hour_of_day |-> r.hour_of_day,
                     trigger_pattern |-> r.trigger_pattern,
                     last_execution |-> Absent, active |-> TRUE]
             tab == Append(recurring_tasks, rec)
         IN  /\ recurring_tasks' = tab
             /\ behavior_history' = SaveHistory(behavior_history)
             /\ disk' = SaveFile(task_queue, tab, behavior_history,
                                 intent_patterns)
             /\ ret' = [op |-> "add_recurring_task", arg |-> r,
                        result |-> TRUE, pre |-> Snapshot]

\* add_recurring_task(task_data)
AddRecurringTask(r) ==
    IF \/ r.type = "none"
       \/ /\ r.interval_hours = Absent
          /\ r.day_of_week = Absent
          /\ r.trigger_pattern = "none"
    THEN /\ ret' = [op |-> "add_recurring_task", arg |-> r, result |-> FALSE,
                    pre |-> Snapshot]
         /\ UNCHANGED <<recurring_tasks, behavior_history, disk>>
    ELSE LET rec == [type |-> r.type, interval_hours |-> r.interval_hours,
                     day_of_week |-> r.day_of_week,
                     hour_of_day |-> r.hour_of_day,
                     trigger_pattern |-> r.trigger_pattern,
                     last_execution |-> Absent, active |-> TRUE]
             tab == Append(recurring_tasks, rec)
         IN  /\ recurring_tasks' = tab
             /\ behavior_history' = SaveHistory(behavior_history)
             /\ disk' = SaveFile(task_queue, tab, behavior_history,
                                 intent_patterns)
             /\ ret' = [op |-> "add_recurring_task", arg |-> r,
                        result |-> TRUE, pre |-> Snapshot]

AddRecurringTaskCall(inputs, maxRecurring) ==
    /\ Len(recurring_tasks) < maxRecurring
    /\ \E r \in inputs : AddRecurringTask(r)
    /\ sw' = MarkForeground(sw)
    /\ rs' = MarkForeground(rs)
    /\ UNCHANGED <<clock, task_queue, intent_patterns, writable, active,
                   thread, next_id, cycles, exec_count, cls, held, thresholds>>

\* _respond_to_intent: the task a reminder intent above 0.7 creates, or none
ReminderTasksForCalendarToo(intent, now, id) ==
    IF intent.primary \in {"reminder", "calendar"} /\ intent.confidence > 70
    THEN <<[id |-> id, type |-> "reminder",
            sched |-> IF \E e \in intent.entities : e[1] = "time"
                      THEN now + 1 ELSE Absent,
            rof |-> "absent", copy_of |-> 0]>>
    ELSE <<>>

ReminderTasks(intent, now, id) ==
    IF intent.primary = "reminder" /\ intent.confidence > 70
    THEN <<[id |-> id, type |-> "reminder",
            sched |-> IF \E e \in intent.entities : e[1] = "time"
                      THEN now + 1 ELSE Absent,
            rof |-> "absent", copy_of |-> 0]>>
    ELSE <<>>

\* process_input(input_data)
ProcessInput(text, context) ==
    LET intent == RecognizeIntent(text, context)
        new == ReminderTasks(intent, clock, next_id)
        h1 == RecordBehavior(behavior_history,
                             [type |-> "user_input", ref |-> 0])
        h2 == RecordBehavior(h1, [type |-> "system_response", ref |-> 0])
    IN  /\ task_queue' = task_queue \o new
        /\ next_id' = next_id + Len(new)
        /\ exec_count' = exec_count \o [k \in 1..Len(new) |-> 0]
        /\ behavior_history' = h2
        /\ ret' = [op |-> "process_input", arg |-> text,
                   result |-> intent.primary, intent |-> intent,
                   pre |-> Snapshot]

ProcessInputCall(maxInputs, maxTasks) ==
    /\ CountType(behavior_history, "user_input") < maxInputs
    /\ next_id <= maxTasks
    /\ \E text \in InputTexts, context \in InputContexts :
            ProcessInput(text, context)
    /\ sw' = MarkForeground(sw)
    /\ rs' = MarkForeground(rs)
    /\ UNCHANGED <<clock, recurring_tasks, intent_patterns, disk, writable,
                   active, thread, cycles, cls, held, thresholds>>

\* process_input for as long as fewer than maxRecords records have been
\* appended to the ledger
ProcessInputBounded(texts, contexts, maxRecords, maxTasks) ==
    /\ NextSeq(behavior_history) < maxRecords
    /\ next_id <= maxTasks
    /\ \E text \in texts, context \in contexts : ProcessInput(text, context)
    /\ sw' = MarkForeground(sw)
    /\ rs' = MarkForeground(rs)
    /\ UNCHANGED <<clock, recurring_tasks, intent_patterns, disk, writable,
                   active, thread, cycles, cls, held, thresholds>>

\* _recognize_intent with the record of the input that process_input makes
\* moved into it
RecognizeIntentCallRecording(texts, contexts, maxCalls) ==
    /\ Len(cls.seen) < maxCalls
    /\ \E text \in texts, context \in contexts :
        LET intent == RecognizeIntent(text, context) IN
        /\ cls' = [called |-> TRUE, text |-> text, context |-> context,
                   intent |-> intent,
                   seen |-> Append(cls.seen,
                                   [text |-> text, context |-> context,
                                    intent |-> intent,
                                    at |-> Len(behavior_history)])]
        /\ ret' = [op |-> "recognize_intent", arg |-> text,
                   result |-> intent.primary, pre |-> Snapshot,
                   patterns |-> intent_patterns]
    /\ behavior_history' = RecordBehavior(behavior_history,
                                          [type |-> "user_input", ref |-> 0])
    /\ UNCHANGED <<clock, task_queue, recurring_tasks, intent_patterns, disk,
                   writable, active, thread, next_id, cycles, exec_count, sw,
                   rs, held, thresholds>>

\* _recognize_intent(text, context) called on the engine as it is: the
\* function reads and writes no attribute of self
RecognizeIntentCall(texts, contexts, maxCalls) ==
    /\ Len(cls.seen) < maxCalls
    /\ \E text \in texts, context \in contexts :
        LET intent == RecognizeIntent(text, context) IN
        /\ cls' = [called |-> TRUE, text |-> text, context |-> context,
                   intent |-> intent,
                   seen |-> Append(cls.seen,
                                   [text |-> text, context |-> context,
                                    intent |-> intent,
                                    at |-> Len(behavior_history)])]
        /\ ret' = [op |-> "recognize_intent", arg |-> text,
                   result |-> intent.primary, pre |-> Snapshot,
                   patterns |-> intent_patterns]
    /\ UNCHANGED <<clock, task_queue, recurring_tasks, behavior_history,
                   intent_patterns, disk, writable, active, thread, next_id,
                   cycles, exec_count, sw, rs, held, thresholds>>

\* save_intent_data() called by the application
SaveIntentDataCall ==
    /\ behavior_history' = SaveHistory(behavior_history)
    /\ disk' = SaveFile(task_queue, recurring_tasks, behavior_history,
                        intent_patterns)
    /\ ret' = [op |-> "save", result |-> writable, pre |-> Snapshot]
    /\ sw' = MarkForeground(sw)
    /\ rs' = MarkForeground(rs)
    /\ UNCHANGED <<clock, task_queue, recurring_tasks, intent_patterns,
                   writable, active, thread, next_id, cycles, exec_count, cls, held, thresholds>>

\* Thread.is_alive()
\* lines 697-699: get_pending_tasks() is "return self.task_queue"
GetPendingTasks ==
    /\ held' = [which |-> "pending", at_return |-> task_queue]
    /\ ret' = [op |-> "get_pending_tasks", result |-> task_queue,
               pre |-> Snapshot]
    /\ UNCHANGED <<clock, task_queue, recurring_tasks, behavior_history,
                   intent_patterns, disk, writable, active, thread, next_id,
                   cycles, exec_count, sw, rs, cls, thresholds>>

\* lines 701-703: get_recurring_tasks() is "return self.recurring_tasks"
GetRecurringTasks ==
    /\ held' = [which |-> "recurring", at_return |-> recurring_tasks]
    /\ ret' = [op |-> "get_recurring_tasks", result |-> recurring_tasks,
               pre |-> Snapshot]
    /\ UNCHANGED <<clock, task_queue, recurring_tasks, behavior_history,
                   intent_patterns, disk, writable, active, thread, next_id,
                   cycles, exec_count, sw, rs, cls, thresholds>>

\* what the caller reads in the list it holds: the list the getter
\* returned is the engine's own list object, which the engine never rebinds
\* after __init__
ResultHeld ==
    IF held.which = "pending" THEN task_queue
    ELSE IF held.which = "recurring" THEN recurring_tasks
    ELSE <<>>

\* the caller empties the list it holds (result.clear()), which is the
\* engine's list
ClearResult ==
    /\ held.which # "none"
    /\ held' = [held EXCEPT !.at_return = <<>>]
    /\ IF held.which = "pending"
       THEN /\ task_queue' = <<>>
            /\ UNCHANGED recurring_tasks
       ELSE /\ recurring_tasks' = <<>>
            /\ UNCHANGED task_queue
    /\ ret' = [op |-> "clear_result", pre |-> Snapshot]
    /\ sw' = MarkForeground(sw)
    /\ rs' = MarkForeground(rs)
    /\ UNCHANGED <<clock, behavior_history, intent_patterns, disk, writable,
                   active, thread, next_id, cycles, exec_count, cls,
                   thresholds>>

\* the caller sets "active" to False in a record of the list that
\* get_recurring_tasks returned, which is a record of the engine's table
DeactivateResult ==
    /\ held.which = "recurring"
    /\ \E k \in 1..Len(recurring_tasks) :
          /\ recurring_tasks[k].active
          /\ recurring_tasks' = [recurring_tasks EXCEPT ![k].active = FALSE]
    /\ held' = [held EXCEPT !.at_return = recurring_tasks']
    /\ ret' = [op |-> "deactivate", pre |-> Snapshot]
    /\ sw' = MarkForeground(sw)
    /\ rs' = MarkForeground(rs)
    /\ UNCHANGED <<clock, task_queue, behavior_history, intent_patterns, disk,
                   writable, active, thread, next_id, cycles, exec_count, cls,
                   thresholds>>

IsAlive == thread.pc \notin {"none", "dead"}

\* start_background_processing() without its test of is_alive(): the thread
\* that background_thread named goes on running without a name
StartBackgroundProcessingUnguarded ==
    /\ active' = TRUE
    /\ thread' = [NoThread EXCEPT
          !.pc = "check",
          !.orphans = thread.orphans + (IF IsAlive THEN 1 ELSE 0)]
    /\ ret' = [op |-> "start", result |-> TRUE, alive |-> IsAlive,
               before |-> thread]
    /\ UNCHANGED <<clock, task_queue, recurring_tasks, behavior_history,
                   intent_patterns, disk, writable, next_id, cycles,
                   exec_count, sw, rs, cls, held, thresholds>>

\* start_background_processing(); alive and before: history, is_alive() and
\* the thread as the call found them
StartBackgroundProcessing ==
    /\ IF IsAlive
       THEN /\ ret' = [op |-> "start", result |-> FALSE, alive |-> TRUE,
                       before |-> thread]
            /\ UNCHANGED <<active, thread>>
       ELSE /\ active' = TRUE
            /\ thread' = [NoThread EXCEPT !.pc = "check",
                                          !.orphans = thread.orphans]
            /\ ret' = [op |-> "start", result |-> TRUE, alive |-> FALSE,
                       before |-> thread]
    /\ UNCHANGED <<clock, task_queue, recurring_tasks, behavior_history,
                   intent_patterns, disk, writable, next_id, cycles,
                   exec_count, sw, rs, cls, held, thresholds>>

\* stop_background_processing(): the join waits at most 2 s and its result
\* is not read
StopBackgroundProcessing ==
    /\ active' = FALSE
    /\ ret' = [op |-> "stop", result |-> TRUE]
    /\ UNCHANGED <<clock, task_queue, recurring_tasks, behavior_history,
                   intent_patterns, disk, writable, thread, next_id, cycles,
                   exec_count, sw, rs, cls, held, thresholds>>

\* a load that reads what it can of a file that was cut short
LoadableWhenTruncated(file) == file.exists /\ file.form # "not_object"

\* lines 58-68: the file exists, json.load returns and the data has .get;
\* otherwise nothing has been assigned when the exception is caught
Loadable(file) == file.exists /\ file.form = "object"

\* the process ends with its worker and a fresh engine is constructed:
\* __init__ with _load_intent_data, which reads the file if there is one.
\* saved: the step before was a save_intent_data() that returned True.
Restart ==
    /\ ~IsAlive
    /\ IF Loadable(disk)
       THEN /\ task_queue' = [k \in 1..Len(disk.task_queue) |->
                                  LoadTask(disk.task_queue[k], k)]
            /\ recurring_tasks' = [k \in 1..Len(disk.recurring_tasks) |->
                                  LoadRecurring(disk.recurring_tasks[k])]
            /\ behavior_history' = disk.behavior_history
            /\ intent_patterns' = disk.intent_patterns
            /\ thresholds' = disk.thresholds
       ELSE /\ task_queue' = <<>>
            /\ recurring_tasks' = <<>>
            /\ behavior_history' = <<>>
            /\ intent_patterns' = <<>>
            /\ thresholds' = DefaultThresholds
    /\ active' = TRUE
    /\ thread' = NoThread
    /\ next_id' = Len(task_queue') + 1
    /\ exec_count' = [k \in 1..Len(task_queue') |-> 0]
    /\ sw' = NoSweep
    /\ rs' = NoSweep
    /\ ret' = [op |-> "load", saved |-> (ret.op = "save" /\ ret.result),
               pre |-> Snapshot, patterns |-> intent_patterns]
    /\ held' = NoHeld
    /\ UNCHANGED <<clock, disk, writable, cycles, cls>>

\* time passes
Tick(maxTime) ==
    /\ clock < maxTime
    /\ clock' = clock + 1
    /\ ret' = NoCall
    /\ UNCHANGED <<task_queue, recurring_tasks, behavior_history,
                   intent_patterns, disk, writable, active, thread, next_id,
                   cycles, exec_count, sw, rs, cls, held, thresholds>>

\* the file is cut short, or overwritten with JSON that is not an object
DamageFile ==
    /\ disk.exists
    /\ disk.form = "object"
    /\ \E f \in {"truncated", "not_object"} :
            disk' = [disk EXCEPT !.form = f]
    /\ ret' = NoCall
    /\ UNCHANGED <<clock, task_queue, recurring_tasks, behavior_history,
                   intent_patterns, writable, active, thread, next_id, cycles,
                   exec_count, sw, rs, cls, held, thresholds>>

\* the operator sets "auto_complete" in the "thresholds" of the file
EditThresholds(values) ==
    /\ disk.exists
    /\ disk.form = "object"
    /\ \E v \in values :
            /\ disk.thresholds.auto_complete # v
            /\ disk' = [disk EXCEPT !.thresholds.auto_complete = v]
    /\ ret' = NoCall
    /\ UNCHANGED <<clock, task_queue, recurring_tasks, behavior_history,
                   intent_patterns, writable, active, thread, next_id, cycles,
                   exec_count, sw, rs, cls, held, thresholds>>

\* the operator takes an entry out of the "intent_patterns" of the file
EditPatterns ==
    /\ disk.exists
    /\ disk.form = "object"
    /\ \E k \in DOMAIN disk.intent_patterns :
            disk' = [disk EXCEPT !.intent_patterns =
                        [x \in DOMAIN disk.intent_patterns \ {k} |->
                            disk.intent_patterns[x]]]
    /\ ret' = NoCall
    /\ UNCHANGED <<clock, task_queue, recurring_tasks, behavior_history,
                   intent_patterns, writable, active, thread, next_id, cycles,
                   exec_count, sw, rs, cls, held, thresholds>>

\* the file becomes unwritable, or writable again
ToggleStorage ==
    /\ writable' = ~writable
    /\ ret' = NoCall
    /\ UNCHANGED <<clock, task_queue, recurring_tasks, behavior_history,
                   intent_patterns, disk, active, thread, next_id, cycles,
                   exec_count, sw, rs, cls, held, thresholds>>

\* ------------------------------------------------------------------------
\* The worker thread (_background_loop)
\* ------------------------------------------------------------------------
\* line 138, then lines 162-163: "while self.active", now, tasks_to_remove
\* the loop as "while True": a cycle begins whatever the flag says
BeginCycleIgnoringFlag(maxCycles) ==
    /\ thread.pc = "check"
    /\ cycles < maxCycles
    /\ cycles' = cycles + 1
    /\ thread' = [thread EXCEPT !.pc = "sweep", !.now = clock,
                                !.it = 0, !.to_remove = <<>>]
    /\ sw' = [state |-> "run", pre |-> task_queue, now |-> clock,
              exec |-> <<>>, deleted |-> {}, fg |-> FALSE,
              early |-> FALSE]
    /\ ret' = NoCall
    /\ UNCHANGED <<clock, task_queue, recurring_tasks, behavior_history,
                   intent_patterns, disk, writable, active, next_id,
                   exec_count, rs, cls, held, thresholds>>

\* the loop with _check_recurring_tasks as the first call of its body
BeginCycleRecurringFirst(maxCycles) ==
    /\ thread.pc = "check"
    /\ IF active
       THEN /\ cycles < maxCycles
            /\ cycles' = cycles + 1
            /\ thread' = [thread EXCEPT !.pc = "recurring", !.now = clock,
                                        !.rit = 0]
            /\ rs' = [state |-> "run", pre |-> recurring_tasks,
                      now |-> clock, fired |-> <<>>, fg |-> FALSE,
                      early |-> FALSE]
       ELSE /\ thread' = [thread EXCEPT !.pc = "dead"]
            /\ UNCHANGED <<cycles, rs>>
    /\ ret' = NoCall
    /\ UNCHANGED <<clock, task_queue, recurring_tasks, behavior_history,
                   intent_patterns, disk, writable, active, next_id,
                   exec_count, sw, cls, held, thresholds>>

BeginCycle(maxCycles) ==
    /\ thread.pc = "check"
    /\ IF active
       THEN /\ cycles < maxCycles
            /\ cycles' = cycles + 1
            /\ thread' = [thread EXCEPT !.pc = "sweep", !.now = clock,
                                        !.it = 0, !.to_remove = <<>>]
            /\ sw' = [state |-> "run", pre |-> task_queue, now |-> clock,
                      exec |-> <<>>, deleted |-> {}, fg |-> FALSE,
                      early |-> FALSE]
       ELSE /\ thread' = [thread EXCEPT !.pc = "dead"]
            /\ UNCHANGED <<cycles, sw>>
    /\ ret' = NoCall
    /\ UNCHANGED <<clock, task_queue, recurring_tasks, behavior_history,
                   intent_patterns, disk, writable, active, next_id,
                   exec_count, rs, cls, held, thresholds>>

\* lines 167-169 and 174-176: the task is due
IsDue(task, now) == task.sched = Absent \/ now >= task.sched

\* lines 172 and 177: success or task.get("remove_on_failure", True)
ShouldRemove(ok, task) == ok \/ task.rof # "false"

Bump(n) == IF n >= 2 THEN 2 ELSE n + 1

\* one iteration of "for i, task in enumerate(self.task_queue)", or its end
SweepStep ==
    /\ thread.pc = "sweep"
    /\ ret' = NoCall
    /\ IF thread.it < Len(task_queue)
       THEN LET task == task_queue[thread.it + 1] IN
            IF task.sched = BadTime
            THEN \* datetime.fromisoformat raises ValueError
                 /\ thread' = [thread EXCEPT !.pc = "backoff"]
                 /\ sw' = [sw EXCEPT !.state = "raised"]
                 /\ UNCHANGED <<behavior_history, exec_count>>
            ELSE IF IsDue(task, thread.now)
            THEN \* _execute_task: the record, then the handler
                 \E ok \in BOOLEAN :
                    /\ behavior_history' =
                          RecordBehavior(behavior_history,
                                         [type |-> "task_execution",
                                          ref |-> task.id])
                    /\ exec_count' = [exec_count EXCEPT ![task.id] = Bump(@)]
                    /\ thread' = [thread EXCEPT
                          !.it = @ + 1,
                          !.to_remove = IF ShouldRemove(ok, task)
                                        THEN Append(@, thread.it) ELSE @]
                    /\ sw' = [sw EXCEPT
                          !.exec = Append(@, [task |-> task, ok |-> ok])]
            ELSE /\ thread' = [thread EXCEPT !.it = @ + 1]
                 /\ UNCHANGED <<behavior_history, exec_count, sw>>
       ELSE /\ thread' = [thread EXCEPT !.pc = "delete"]
            /\ sw' = [sw EXCEPT !.state = "executed"]
            /\ UNCHANGED <<behavior_history, exec_count>>
    /\ UNCHANGED <<clock, task_queue, recurring_tasks, intent_patterns, disk,
                   writable, active, next_id, cycles, rs, cls, held, thresholds>>

\* _record_behavior of _execute_task in the two steps in which another
\* thread sees it, when the ledger is full. Line 594: the record is appended;
\* lines 597-598: the list is longer than 200 and its last 200 records are
\* copied into a new list
RecordAppend ==
    /\ thread.pc = "sweep"
    /\ thread.it < Len(task_queue)
    /\ task_queue[thread.it + 1].sched # BadTime
    /\ IsDue(task_queue[thread.it + 1], thread.now)
    /\ Len(behavior_history) >= HistoryLimit
    /\ ret' = NoCall
    /\ behavior_history' =
          Append(behavior_history,
                 [type |-> "task_execution",
                  ref |-> task_queue[thread.it + 1].id,
                  seq |-> NextSeq(behavior_history)])
    /\ thread' = [thread EXCEPT
          !.pc = "cut",
          !.slice = LastN(behavior_history', HistoryLimit)]
    /\ UNCHANGED <<clock, task_queue, recurring_tasks, intent_patterns, disk,
                   writable, active, next_id, cycles, exec_count, sw, rs,
                   cls, held, thresholds>>

\* line 598: the new list is assigned to self.behavior_history; then the
\* handler of _execute_task and lines 172-173 or 177-178
RecordCut ==
    /\ thread.pc = "cut"
    /\ ret' = NoCall
    /\ behavior_history' = thread.slice
    /\ LET task == task_queue[thread.it + 1] IN
       \E ok \in BOOLEAN :
          /\ exec_count' = [exec_count EXCEPT ![task.id] = Bump(@)]
          /\ thread' = [thread EXCEPT
                !.pc = "sweep",
                !.slice = <<>>,
                !.it = @ + 1,
                !.to_remove = IF ShouldRemove(ok, task)
                              THEN Append(@, thread.it) ELSE @]
          /\ sw' = [sw EXCEPT
                !.exec = Append(@, [task |-> task, ok |-> ok])]
    /\ UNCHANGED <<clock, task_queue, recurring_tasks, intent_patterns, disk,
                   writable, active, next_id, cycles, rs, cls, held,
                   thresholds>>

\* lines 181-182: "for i in sorted(tasks_to_remove, reverse=True): del ...",
\* then line 229: now of _check_recurring_tasks
DeleteStep ==
    /\ thread.pc = "delete"
    /\ ret' = NoCall
    /\ IF thread.to_remove = <<>>
       THEN /\ thread' = [thread EXCEPT !.pc = "recurring", !.now = clock,
                                        !.rit = 0]
            /\ sw' = [sw EXCEPT !.state = "done"]
            /\ rs' = [state |-> "run", pre |-> recurring_tasks,
                      now |-> clock, fired |-> <<>>, fg |-> FALSE,
                      early |-> FALSE]
            /\ UNCHANGED task_queue
       ELSE LET i == thread.to_remove[Len(thread.to_remove)] IN
            IF i < Len(task_queue)
            THEN /\ task_queue' = RemoveAt(task_queue, i)
                 /\ thread' = [thread EXCEPT
                       !.to_remove = SubSeq(@, 1, Len(@) - 1)]
                 /\ sw' = [sw EXCEPT
                       !.deleted = @ \cup {task_queue[i + 1].id}]
                 /\ UNCHANGED rs
            ELSE \* IndexError: list assignment index out of range
                 /\ thread' = [thread EXCEPT !.pc = "backoff"]
                 /\ sw' = [sw EXCEPT !.state = "raised"]
                 /\ UNCHANGED <<task_queue, rs>>
    /\ UNCHANGED <<clock, recurring_tasks, behavior_history, intent_patterns,
                   disk, writable, active, next_id, cycles, exec_count, cls, held, thresholds>>

\* datetime.weekday(), .date() and .hour of a time in hours; hour 0 is the
\* midnight that begins a Monday
Weekday(t) == (t \div HoursPerDay) % DaysPerWeek
Date(t) == t \div HoursPerDay
Hour(t) == t % HoursPerDay

\* should_execute without the comparison with last_execution
ShouldExecuteAlways(rec, now, draw) ==
    IF rec.interval_hours # Absent
    THEN TRUE
    ELSE IF rec.day_of_week # Absent
    THEN /\ Weekday(now) = rec.day_of_week
         /\ rec.hour_of_day # Absent => Hour(now) = rec.hour_of_day
    ELSE IF rec.trigger_pattern # "none"
    THEN draw
    ELSE FALSE

\* lines 242-269: should_execute; draw is random.random() < 0.05
ShouldExecute(rec, now, draw) ==
    IF rec.interval_hours # Absent
    THEN \/ rec.last_execution = Absent
         \/ now - rec.last_execution >= rec.interval_hours
    ELSE IF rec.day_of_week # Absent
    THEN /\ Weekday(now) = rec.day_of_week
         /\ \/ rec.last_execution = Absent
            \/ Date(rec.last_execution) # Date(now)
         /\ rec.hour_of_day # Absent => Hour(now) = rec.hour_of_day
    ELSE IF rec.trigger_pattern # "none"
    THEN draw
    ELSE FALSE

\* one iteration of "for task in self.recurring_tasks", or its end
\* the table after a firing that also takes the fired record out of it
MarkExecutedAndConsumed(tab, k, now) ==
    SubSeq(tab, 1, k - 1) \o SubSeq(tab, k + 1, Len(tab))

\* the sweep without its test of the active field
IsActiveAlways(rec) == TRUE

\* line 233: task.get("active", True)
IsActive(rec) == rec.active

\* the table after a firing that reads the clock again for last_execution
MarkExecutedLater(tab, k, now) ==
    [tab EXCEPT ![k].last_execution = now + 1]

\* line 279: task["last_execution"] = now.isoformat()
MarkExecuted(tab, k, now) ==
    [tab EXCEPT ![k].last_execution = now]

RecurringStep(maxTasks) ==
    /\ thread.pc = "recurring"
    /\ ret' = NoCall
    /\ sw' = NoSweep
    /\ IF thread.rit < Len(recurring_tasks)
       THEN LET k == thread.rit + 1
                rec == recurring_tasks[k]
            IN  \E draw \in BOOLEAN :
                IF IsActive(rec) /\ ShouldExecute(rec, thread.now, draw)
                THEN /\ next_id <= maxTasks
                     /\ task_queue' = Append(task_queue,
                            [id |-> next_id, type |-> rec.type,
                             sched |-> thread.now, rof |-> "absent",
                             copy_of |-> k])
                     /\ recurring_tasks' =
                            MarkExecuted(recurring_tasks, k, thread.now)
                     /\ next_id' = next_id + 1
                     /\ exec_count' = Append(exec_count, 0)
                     /\ thread' = [thread EXCEPT !.rit = @ + 1]
                     /\ rs' = [rs EXCEPT !.fired = Append(@, k)]
                ELSE /\ thread' = [thread EXCEPT !.rit = @ + 1]
                     /\ UNCHANGED <<task_queue, recurring_tasks, next_id,
                                    exec_count, rs>>
       ELSE /\ thread' = [thread EXCEPT !.pc = "analyze"]
            /\ rs' = [rs EXCEPT !.state = "done"]
            /\ UNCHANGED <<task_queue, recurring_tasks, next_id, exec_count>>
    /\ UNCHANGED <<clock, behavior_history, intent_patterns, disk, writable,
                   active, cycles, cls, held, thresholds>>

\* the time pattern with its confidence written in percent
TimePatternInPercent == [type |-> "time_pattern", confidence |-> 7500]

\* lines 323-325: the pattern _find_time_patterns returns; the confidence
\* is in hundredths
TimePattern == [type |-> "time_pattern", confidence |-> 75]

\* lines 340-342: the pattern _find_sequence_patterns returns
SequencePattern == [type |-> "sequence_pattern", confidence |-> 80]

\* line 303: pattern_id = f"pattern_{len(self.intent_patterns) + 1}"
PutPattern(p, ty) ==
    LET k == Cardinality(DOMAIN p) + 1
    IN  [x \in DOMAIN p \cup {k} |-> IF x = k THEN ty ELSE p[x]]

RECURSIVE PutPatterns(_, _)
\* lines 302-310: the patterns found, stored one after the other
PutPatterns(p, found) ==
    IF found = <<>> THEN p
    ELSE PutPatterns(PutPattern(p, Head(found)), Tail(found))

\* _analyze_behavior_patterns: run is random.random() <= 0.017, tp and sp are
\* the draws of _find_time_patterns and _find_sequence_patterns
AnalyzeBehaviorPatterns(maxPatterns) ==
    /\ thread.pc = "analyze"
    /\ ret' = NoCall
    /\ rs' = NoSweep
    /\ thread' = [thread EXCEPT !.pc = "save"]
    /\ \E run \in BOOLEAN, tp \in BOOLEAN, sp \in BOOLEAN :
        LET found == (IF tp THEN <<TimePattern>> ELSE <<>>)
                     \o (IF sp THEN <<SequencePattern>> ELSE <<>>)
            p == PutPatterns(intent_patterns, found)
        IN  IF run /\ found # <<>>
            THEN /\ Cardinality(DOMAIN p) <= maxPatterns
                 /\ intent_patterns' = p
                 /\ behavior_history' = SaveHistory(behavior_history)
                 /\ disk' = SaveFile(task_queue, recurring_tasks,
                                     behavior_history, p)
            ELSE UNCHANGED <<intent_patterns, behavior_history, disk>>
    /\ UNCHANGED <<clock, task_queue, recurring_tasks, writable, active,
                   next_id, cycles, exec_count, sw, cls, held, thresholds>>

\* lines 150-151: "if random.random() < 0.1: self.save_intent_data()"
\* draws: the outcomes of the draw that are explored
MaybeSave(draws) ==
    /\ thread.pc = "save"
    /\ ret' = NoCall
    /\ thread' = [thread EXCEPT !.pc = "sleep"]
    /\ \E draw \in draws :
        IF draw
        THEN /\ behavior_history' = SaveHistory(behavior_history)
             /\ disk' = SaveFile(task_queue, recurring_tasks,
                                 behavior_history, intent_patterns)
        ELSE UNCHANGED <<behavior_history, disk>>
    /\ UNCHANGED <<clock, task_queue, recurring_tasks, intent_patterns,
                   writable, active, next_id, cycles, exec_count, sw, rs, cls, held, thresholds>>

\* the save of the cycle in the two steps in which another thread sees it.
\* lines 81-92: the ledger is cut to its last 100 records and intent_data
\* is built, with references to the ledger, the queue and the table
BeginSave ==
    /\ thread.pc = "save"
    /\ ret' = NoCall
    /\ thread' = [thread EXCEPT !.pc = "dump"]
    /\ behavior_history' = SaveHistory(behavior_history)
    /\ UNCHANGED <<clock, task_queue, recurring_tasks, intent_patterns, disk,
                   writable, active, next_id, cycles, exec_count, sw, rs,
                   cls, held, thresholds>>

\* lines 94-95: json.dump walks the lists as they are when it comes to them
EndSave ==
    /\ thread.pc = "dump"
    /\ ret' = NoCall
    /\ thread' = [thread EXCEPT !.pc = "sleep"]
    /\ disk' = IF writable
               THEN [FileOf(task_queue, recurring_tasks, behavior_history,
                            intent_patterns)
                        EXCEPT !.behavior_history = behavior_history]
               ELSE disk
    /\ UNCHANGED <<clock, task_queue, recurring_tasks, behavior_history,
                   intent_patterns, writable, active, next_id, cycles,
                   exec_count, sw, rs, cls, held, thresholds>>

\* line 154: time.sleep(10)
Sleep ==
    /\ thread.pc = "sleep"
    /\ ret' = NoCall
    /\ thread' = [thread EXCEPT !.pc = "check"]
    /\ UNCHANGED <<clock, task_queue, recurring_tasks, behavior_history,
                   intent_patterns, disk, writable, active, next_id, cycles,
                   exec_count, sw, rs, cls, held, thresholds>>

\* the loop without its except clause: the exception ends the thread
BackoffTerminates ==
    /\ thread.pc = "backoff"
    /\ ret' = NoCall
    /\ sw' = NoSweep
    /\ thread' = [thread EXCEPT !.pc = "dead"]
    /\ UNCHANGED <<clock, task_queue, recurring_tasks, behavior_history,
                   intent_patterns, disk, writable, active, next_id, cycles,
                   exec_count, rs, cls, held, thresholds>>

\* lines 156-158: the exception is logged, then time.sleep(60)
Backoff ==
    /\ thread.pc = "backoff"
    /\ ret' = NoCall
    /\ sw' = NoSweep
    /\ thread' = [thread EXCEPT !.pc = "check"]
    /\ UNCHANGED <<clock, task_queue, recurring_tasks, behavior_history,
                   intent_patterns, disk, writable, active, next_id, cycles,
                   exec_count, rs, cls, held, thresholds>>

\* ------------------------------------------------------------------------
\* Specifications
\* ------------------------------------------------------------------------
\* the task queue: add_task and remove_task with valid arguments, the
\* worker and the clock; no pattern is found and no periodic save is drawn
NextQueue ==
    \/ AddTaskCall(TaskInputs \ {t \in TaskInputs : t.type = "none"},
                   QueueTasks)
    \/ RemoveTaskCall(0)
    \/ StartBackgroundProcessing
    \/ BeginCycle(QueueCycles)
    \/ SweepStep
    \/ DeleteStep
    \/ RecurringStep(QueueTasks)
    \/ AnalyzeBehaviorPatterns(0)
    \/ MaybeSave({FALSE})
    \/ Sleep
    \/ Backoff
    \/ Tick(QueueTime)

SpecQueue == Init /\ [][NextQueue]_vars

\* the foreground calls with every argument, valid or not, and a file that
\* can become unwritable; the worker is not started
NextStore ==
    \/ AddTaskCall({t \in TaskInputs : t.rof = "absent" /\ t.sched # BadTime},
                   StoreTasks)
    \/ RemoveTaskCall(1)
    \/ AddRecurringTaskCall({r \in RecurringInputs :
                                r.interval_hours = 1 \/ r = NoRecurrence},
                            StoreRecurring)
    \/ ProcessInputCall(StoreInputs, StoreTasks)
    \/ ToggleStorage

SpecStore == Init /\ [][NextStore]_vars

\* the recurring table: add_recurring_task, the worker and the clock; the
\* queue holds only the tasks the recurring sweep puts there, so no sweep
\* raises
NextRecurring ==
    \/ AddRecurringTaskCall(RecurringInputs, RecurringRecords)
    \/ StartBackgroundProcessing
    \/ BeginCycle(RecurringCycles)
    \/ SweepStep
    \/ DeleteStep
    \/ RecurringStep(RecurringFirings)
    \/ AnalyzeBehaviorPatterns(0)
    \/ MaybeSave({FALSE})
    \/ Sleep
    \/ Tick(RecurringTime)

SpecRecurring == Init /\ [][NextRecurring]_vars

\* the classifier called between the calls of add_task and the steps of the
\* worker, which fill the queue, the ledger and the pattern map
NextIntent ==
    \/ RecognizeIntentCall({t \in InputTexts : Len(t) = 1},
                           InputContexts \ {NoContext}, IntentCalls)
    \/ AddTaskCall({t \in TaskInputs : t.type # "none" /\ t.sched = Absent
                                         /\ t.rof = "absent"}, IntentTasks)
    \/ StartBackgroundProcessing
    \/ BeginCycle(IntentCycles)
    \/ SweepStep
    \/ DeleteStep
    \/ RecurringStep(IntentTasks)
    \/ AnalyzeBehaviorPatterns(IntentPatterns)
    \/ MaybeSave({FALSE})
    \/ Sleep

SpecIntent == Init /\ [][NextIntent]_vars

\* the engine saved and constructed again from its file: tasks, recurring
\* records, a worker that fires, executes and finds patterns, and is
\* stopped; the file stays writable
NextPersist ==
    \/ AddTaskCall({t \in TaskInputs : t.sched = 1 /\ t.rof = "false"},
                   PersistTasks)
    \/ AddRecurringTaskCall({r \in RecurringInputs :
                                r.interval_hours = 2
                                    /\ r.day_of_week # Absent},
                            PersistRecurring)
    \/ SaveIntentDataCall
    \/ Restart
    \/ StartBackgroundProcessing
    \/ StopBackgroundProcessing
    \/ BeginCycle(PersistCycles)
    \/ SweepStep
    \/ DeleteStep
    \/ RecurringStep(PersistTasks)
    \/ AnalyzeBehaviorPatterns(PersistPatterns)
    \/ MaybeSave({FALSE})
    \/ Sleep

SpecPersist == Init /\ [][NextPersist]_vars

RECURSIVE Texts(_)
\* the texts of at most n words
Texts(n) ==
    IF n = 0 THEN {<<>>}
    ELSE LET shorter == Texts(n - 1)
         IN  shorter \cup {Append(t, w) : t \in shorter, w \in Vocabulary}

\* the context dicts of the classifier's callers
ClassifyContexts ==
    {NoContext, [NoContext EXCEPT !.app = "calendar"],
     [NoContext EXCEPT !.app = "messaging"],
     [NoContext EXCEPT !.location = "home", !.time = 6],
     [NoContext EXCEPT !.app = "calendar", !.time = 7]}
    \cup {[NoContext EXCEPT !.time = h] : h \in {NoHour, 4, 5, 9, 10}}

\* the classifier alone: an input is drawn, then classified
InitClassify ==
    /\ clock = 0
    /\ task_queue = <<>>
    /\ recurring_tasks = <<>>
    /\ behavior_history = <<>>
    /\ intent_patterns = <<>>
    /\ disk = NoFile
    /\ writable = TRUE
    /\ active = TRUE
    /\ thread = NoThread
    /\ next_id = 1
    /\ cycles = 0
    /\ exec_count = <<>>
    /\ ret = NoCall
    /\ sw = NoSweep
    /\ rs = NoSweep
    /\ cls \in {[NoClassification EXCEPT !.text = t, !.context = c] :
                    t \in Texts(MaxWords), c \in ClassifyContexts}
    /\ held = NoHeld
    /\ thresholds = DefaultThresholds

\* _recognize_intent(text, context) applied to the input drawn
Classify ==
    /\ ~cls.called
    /\ cls' = [cls EXCEPT !.called = TRUE,
                          !.intent = RecognizeIntent(cls.text, cls.context)]
    /\ UNCHANGED <<clock, task_queue, recurring_tasks, behavior_history,
                   intent_patterns, disk, writable, active, thread, next_id,
                   cycles, exec_count, ret, sw, rs, held, thresholds>>

SpecClassify == InitClassify /\ [][Classify]_vars

\* ------------------------------------------------------------------------
\* The due-task sweep
\* ------------------------------------------------------------------------
\* the tasks the sweep in progress has executed, and those that succeeded
SweepExecuted == {sw.exec[k].task.id : k \in 1..Len(sw.exec)}
SweepSucceeded == {sw.exec[k].task.id : k \in {j \in 1..Len(sw.exec) : sw.exec[j].ok}}

\* the execution pass of the sweep is over: it ended or it raised
PassOver == sw.state \in {"executed", "done", "raised"}

\* scheduled_time is a timestamp that has come
TimeHasCome(task, now) == task.sched >= 0 /\ now >= task.sched

\* C1: a task with no scheduled_time that is in the queue when a sweep
\* begins is executed by that sweep (unless a caller removes it meanwhile).
C1_NoTimeTaskExecutedBySweep ==
    PassOver =>
        \A k \in 1..Len(sw.pre) :
            (sw.pre[k].sched = Absent /\ sw.pre[k].id \in IdSet(task_queue))
                => sw.pre[k].id \in SweepExecuted

\* C2: a sweep executes a task with scheduled_time = t only if its now is at
\* least t, and a sweep with now >= t executes every such task that is in
\* the queue when it begins (unless a caller removes it meanwhile).
C2_TimedTaskExecutedWhenDue ==
    /\ sw.state # "none" =>
          \A k \in 1..Len(sw.exec) :
              sw.exec[k].task.sched # Absent
                  => TimeHasCome(sw.exec[k].task, sw.now)
    /\ PassOver =>
          \A k \in 1..Len(sw.pre) :
              (TimeHasCome(sw.pre[k], sw.now)
                    /\ sw.pre[k].id \in IdSet(task_queue))
                  => sw.pre[k].id \in SweepExecuted

\* no sweep executes a task before its scheduled_time: this part is a matter
\* of one iteration and holds in every interleaving
NeverExecutedEarly ==
    sw.state # "none" =>
        \A k \in 1..Len(sw.exec) :
            sw.exec[k].task.sched # Absent
                => TimeHasCome(sw.exec[k].task, sw.now)

\* the tasks of the queue at the beginning of the sweep that the sweep is
\* to remove: due, and executed with success or not kept on failure
SweepRemoves ==
    {sw.pre[k].id : k \in {j \in 1..Len(sw.pre) :
        /\ sw.pre[j].sched = Absent \/ TimeHasCome(sw.pre[j], sw.now)
        /\ sw.pre[j].id \in SweepSucceeded \/ sw.pre[j].rof # "false"}}

\* C7: after a sweep with no foreground call in between, the queue is the
\* queue the sweep began with, less the due tasks that succeeded or are not
\* kept on failure, in the same order.
C7_SweepRemovesExactlyExecuted ==
    (sw.state \in {"done", "raised"} /\ ~sw.fg) =>
        task_queue = SelectSeq2(sw.pre, IdSet(sw.pre) \ SweepRemoves)

\* the same for the sweeps that end without raising, which holds
SweepRemovesWhenNothingRaises ==
    (sw.state = "done" /\ ~sw.fg) =>
        task_queue = SelectSeq2(sw.pre, IdSet(sw.pre) \ SweepRemoves)

\* C8: a task that is not kept on failure is executed at most once, and is
\* not in the queue after the sweep that executed it.
C8_ExecutedAtMostOnce ==
    sw.state # "none" =>
        \A k \in 1..Len(sw.exec) :
            sw.exec[k].task.rof # "false" =>
                /\ exec_count[sw.exec[k].task.id] <= 1
                /\ sw.state = "done" /\ ~sw.fg
                      => sw.exec[k].task.id \notin IdSet(task_queue)

\* C9: the sweep deletes only tasks it has executed, also when remove_task
\* runs between its execution pass and its deletion pass (and no foreground
\* call was made while the execution pass was iterating).
C9_SweepDeletesOnlyExecuted ==
    (sw.state # "none" /\ ~sw.early) => sw.deleted \subseteq SweepExecuted

\* ------------------------------------------------------------------------
\* The recurring sweep
\* ------------------------------------------------------------------------
\* the interval h of the record has elapsed since its last firing, or it has
\* never fired
IntervalElapsed(rec, now) ==
    \/ rec.last_execution = Absent
    \/ now - rec.last_execution >= rec.interval_hours

FiredBy(sweep, k) == \E j \in 1..Len(sweep.fired) : sweep.fired[j] = k

\* C3: a recurring sweep fires an active record with interval_hours = h
\* exactly when the record has no last_execution or its now is at least h
\* hours after the last firing; a firing puts a copy scheduled for now in the
\* queue and makes now the record's last_execution, and a record that does
\* not fire keeps its last_execution.
C3_IntervalTaskFiresWhenElapsed ==
    rs.state = "done" =>
        \A k \in 1..Len(rs.pre) :
            LET rec == rs.pre[k] IN
            (rec.active /\ rec.interval_hours # Absent) =>
                IF IntervalElapsed(rec, rs.now)
                THEN /\ FiredBy(rs, k)
                     /\ recurring_tasks[k].last_execution = rs.now
                     /\ \E q \in 1..Len(task_queue) :
                            /\ task_queue[q].copy_of = k
                            /\ task_queue[q].sched = rs.now
                ELSE /\ ~FiredBy(rs, k)
                     /\ recurring_tasks[k].last_execution = rec.last_execution

\* a record with an interval of 2 hours that fired at hour 0 fires again in
\* the sweep of hour 2
C3_FiresAgainAfterInterval ==
    /\ rs.state = "done"
    /\ \E k \in 1..Len(rs.pre) :
          /\ rs.pre[k].interval_hours = 2
          /\ rs.pre[k].last_execution = 0
          /\ rs.now = 2
          /\ FiredBy(rs, k)
          /\ recurring_tasks[k].last_execution = 2

\* ------------------------------------------------------------------------
\* The foreground calls
\* ------------------------------------------------------------------------
\* C4: add_task with a dict that has no type returns failure and leaves the
\* queue, the recurring table, the ledger and the file as they were.
C4_AddTaskWithoutTypeRejected ==
    (ret.op = "add_task" /\ ret.arg.type = "none") =>
        /\ ret.result = FALSE
        /\ Snapshot = ret.pre

\* a dict without type is rejected by an engine that holds a task, a
\* recurring record, a ledger record and a file
C4_RejectedWithStateToLose ==
    /\ ret.op = "add_task"
    /\ ret.arg.type = "none"
    /\ ret.result = FALSE
    /\ task_queue # <<>>
    /\ recurring_tasks # <<>>
    /\ behavior_history # <<>>
    /\ disk.exists

\* C5: remove_task(i) with i < 0 or i >= len(queue) returns failure and
\* leaves the queue as it was.
C5_RemoveInvalidIndexRejected ==
    (/\ ret.op = "remove_task"
     /\ ret.arg < 0 \/ ret.arg >= Len(ret.pre.task_queue)) =>
        /\ ret.result = FALSE
        /\ task_queue = ret.pre.task_queue

\* remove_task(-1) is rejected on a queue of two tasks
C5_NegativeIndexOnFilledQueue ==
    /\ ret.op = "remove_task"
    /\ ret.arg = -1
    /\ ret.result = FALSE
    /\ Len(task_queue) = 2

\* C6: remove_task(i) with 0 <= i < len(queue) returns success and removes
\* the task at position i and no other; the tasks that stay keep their order.
C6_RemoveValidIndexRemovesThatTask ==
    (/\ ret.op = "remove_task"
     /\ 0 <= ret.arg /\ ret.arg < Len(ret.pre.task_queue)) =>
        /\ ret.result = TRUE
        /\ task_queue = RemoveAt(ret.pre.task_queue, ret.arg)

\* of the tasks A, B, C, remove_task(1) has removed B and then C: A is left
C6_SecondRemoveLeavesFirstTask ==
    /\ ret.op = "remove_task"
    /\ ret.arg = 1
    /\ ret.result = TRUE
    /\ Ids(ret.pre.task_queue) = <<1, 3>>
    /\ Ids(task_queue) = <<1>>

\* ------------------------------------------------------------------------
\* The classifier
\* ------------------------------------------------------------------------
\* the rules in the order of their priority
RuleOrder == <<"reminder", "calendar", "search", "communication", "help">>

BaseConfidence ==
    [reminder |-> 80, calendar |-> 75, search |-> 70, communication |-> 80,
     help |-> 90]

\* the text holds a keyword of the rule, in any letter case
RuleMatches(rule, text) ==
    LET t == Lower(text) IN
    CASE rule = "reminder" -> Matches(t, ReminderWords, {})
      [] rule = "calendar" -> Matches(t, CalendarWords, {})
      [] rule = "search" -> Matches(t, SearchWords, SearchPhrases)
      [] rule = "communication" -> Matches(t, CommunicationWords, {})
      [] rule = "help" -> Matches(t, HelpWords, HelpPhrases)

\* C10: with no context, a text that matches at least one rule is classified
\* as the first rule it matches in the order reminder, calendar, search,
\* communication, help, with that rule's base confidence.
C10_FirstMatchingRuleWins ==
    (/\ cls.called
     /\ cls.context = NoContext
     /\ \E r \in 1..Len(RuleOrder) : RuleMatches(RuleOrder[r], cls.text)) =>
        LET first == CHOOSE r \in 1..Len(RuleOrder) :
                        /\ RuleMatches(RuleOrder[r], cls.text)
                        /\ \A q \in 1..(r - 1) :
                              ~RuleMatches(RuleOrder[q], cls.text)
        IN  /\ cls.intent.primary = RuleOrder[first]
            /\ cls.intent.confidence = BaseConfidence[RuleOrder[first]]

\* a text with a communication keyword before a reminder keyword is a
\* reminder
C10_ReminderBeatsCommunication ==
    /\ cls.called
    /\ cls.context = NoContext
    /\ cls.text = <<"call", "Remind">>
    /\ cls.intent.primary = "reminder"
    /\ cls.intent.confidence = 80

\* the context says that it is morning: it has a time whose hour is in 5..9
MorningContext(context) ==
    /\ context.time # Absent
    /\ \E h \in 5..9 : h = (IF context.time = NoHour THEN 0 ELSE context.time)

AnyRuleMatches(text) ==
    \E r \in 1..Len(RuleOrder) : RuleMatches(RuleOrder[r], text)

\* C11: a text that matches no rule is unknown at 0.5, unless the context
\* has a time whose hour is in 5..9, and then it is morning_routine at 0.6; a
\* text that matches a rule is never morning_routine.
C11_UnknownOrMorningRoutine ==
    cls.called =>
        IF AnyRuleMatches(cls.text)
        THEN cls.intent.primary # "morning_routine"
        ELSE IF MorningContext(cls.context)
        THEN /\ cls.intent.primary = "morning_routine"
             /\ cls.intent.confidence = 60
        ELSE /\ cls.intent.primary = "unknown"
             /\ cls.intent.confidence = 50

\* "weather" at hour 9, the last hour of the window, is a morning routine
C11_MorningRoutineAtNine ==
    /\ cls.called
    /\ cls.text = <<"weather">>
    /\ cls.context = [NoContext EXCEPT !.time = 9]
    /\ cls.intent.primary = "morning_routine"
    /\ cls.intent.confidence = 60

TaskFields(q) ==
    [k \in 1..Len(q) |->
        [type |-> q[k].type, sched |-> q[k].sched, rof |-> q[k].rof]]

\* C13: an engine constructed from the file that save_intent_data has just
\* written has the task queue, the recurring table and the pattern map of
\* the engine that saved, element by element and field by field, and a save
\* by the new engine writes the same file again.
C13_SaveLoadRoundTrip ==
    (ret.op = "load" /\ ret.saved) =>
        /\ TaskFields(task_queue) = TaskFields(ret.pre.task_queue)
        /\ recurring_tasks = ret.pre.recurring_tasks
        /\ intent_patterns = ret.patterns
        /\ FileOf(task_queue, recurring_tasks, behavior_history,
                  intent_patterns) = disk

\* an engine with a task that is kept on failure, a recurring record that
\* has fired and a pattern is saved and loaded
C13_LoadedWhatWasSaved ==
    /\ ret.op = "load"
    /\ ret.saved
    /\ \E k \in 1..Len(task_queue) :
          task_queue[k].rof = "false" /\ task_queue[k].sched = 1
    /\ \E k \in 1..Len(recurring_tasks) :
          recurring_tasks[k].last_execution # Absent
    /\ intent_patterns # <<>>

\* ------------------------------------------------------------------------
\* The loop of the worker
\* ------------------------------------------------------------------------
\* start and stop from the foreground beside the worker; a task whose
\* scheduled_time does not parse makes the sweep raise
NextLoop ==
    \/ AddTaskCall({t \in TaskInputs : /\ t.type # "none"
                                       /\ t.sched \in {Absent, BadTime}
                                       /\ t.rof = "absent"}, LoopTasks)
    \/ StartBackgroundProcessing
    \/ StopBackgroundProcessing
    \/ BeginCycle(LoopCycles)
    \/ SweepStep
    \/ DeleteStep
    \/ RecurringStep(LoopTasks)
    \/ AnalyzeBehaviorPatterns(0)
    \/ MaybeSave({FALSE})
    \/ Sleep
    \/ Backoff

SpecLoop == Init /\ [][NextLoop]_vars

\* the worker is a thread of its own: the interpreter goes on scheduling it,
\* and time.sleep(10) and time.sleep(60) return
SpecLoopFair ==
    /\ SpecLoop
    /\ WF_vars(BeginCycle(LoopCycles))
    /\ WF_vars(SweepStep)
    /\ WF_vars(DeleteStep)
    /\ WF_vars(RecurringStep(LoopTasks))
    /\ WF_vars(AnalyzeBehaviorPatterns(0))
    /\ WF_vars(MaybeSave({FALSE}))
    /\ WF_vars(Sleep)
    /\ WF_vars(Backoff)

\* C17: in any sequence of start and stop calls at most one thread runs the
\* loop: a start that finds the worker alive makes no second one, changes
\* nothing of the worker and returns False, and a start that finds none
\* alive makes the one worker there is.
C17_AtMostOneWorker ==
    /\ thread.orphans = 0
    /\ ret.op = "start" =>
          IF ret.alive
          THEN /\ ret.result = FALSE
               /\ thread = ret.before
          ELSE /\ ret.result = TRUE
               /\ IsAlive

\* a start after a stop, while the worker that was stopped is still in its
\* second cycle
C17_StartWhileStoppedWorkerAlive ==
    /\ ret.op = "start"
    /\ ret.alive
    /\ ~active
    /\ cycles = 2
    /\ thread.pc \notin {"check", "sleep"}

\* C18: an exception raised in a step of a cycle does not end the loop: the
\* thread ends only at the head of the loop and only when the flag is down,
\* the worker leaves its backoff only for the head of the loop, and a
\* worker in its backoff goes on to begin another cycle unless a stop has
\* taken the flag down (as long as the cycles counted stay below
\* LoopCycles).
C18_LoopSurvivesExceptions ==
    /\ [][(thread'.pc = "dead" /\ thread.pc # "dead")
            => (thread.pc = "check" /\ ~active)]_vars
    /\ [][thread.pc = "backoff" => thread'.pc \in {"backoff", "check"}]_vars
    /\ (thread.pc = "backoff" /\ cycles < LoopCycles)
          ~> (thread.pc = "sweep" \/ ~active)

\* the first sweep executed the first task and raised at the second, whose
\* scheduled_time does not parse, and the worker has begun its second cycle
C18_SecondCycleAfterException ==
    /\ active
    /\ thread.pc = "sweep"
    /\ thread.it = 0
    /\ cycles = 2
    /\ Len(task_queue) = 2
    /\ task_queue[1].id = 1
    /\ exec_count[1] = 1
    /\ task_queue[2].sched = BadTime

\* C19: once stop has taken the flag down the worker begins no cycle any
\* more (a cycle begins only while the flag is up), a thread that has ended
\* stays ended until a start, and a worker that is alive while the flag is
\* down comes to its end.
C19_WorkerTerminatesAfterStop ==
    /\ [][cycles' # cycles => active]_vars
    /\ [][thread.pc = "dead"
            => (thread'.pc = "dead" \/ ret'.op = "start")]_vars
    /\ (~active /\ IsAlive) ~> ~IsAlive

\* the worker has ended with the flag down, after two cycles that both
\* executed the first task and raised at the second
C19_EndedAfterStop ==
    /\ ~active
    /\ thread.pc = "dead"
    /\ cycles = 2
    /\ Len(exec_count) = 2
    /\ exec_count[1] = 2

\* ------------------------------------------------------------------------
\* The recurring table
\* ------------------------------------------------------------------------
\* add_recurring_task and remove_task from the foreground beside a worker
\* that fires the records and executes their copies
NextTable ==
    \/ AddRecurringTaskCall({r \in RecurringInputs :
                                \/ r = [NoRecurrence EXCEPT
                                           !.interval_hours = 1]
                                \/ r = [NoRecurrence EXCEPT
                                           !.day_of_week = 0]},
                            TableRecords)
    \/ RemoveTaskCall(0)
    \/ StartBackgroundProcessing
    \/ BeginCycle(TableCycles)
    \/ SweepStep
    \/ DeleteStep
    \/ RecurringStep(TableFirings)
    \/ AnalyzeBehaviorPatterns(0)
    \/ MaybeSave({FALSE})
    \/ Sleep
    \/ Backoff

SpecTable == Init /\ [][NextTable]_vars

\* the dict has at least one of the keys that say when the task recurs
HasRecurrence(r) ==
    \/ r.interval_hours # Absent
    \/ r.day_of_week # Absent
    \/ r.trigger_pattern # "none"

\* C14: add_recurring_task with a dict that has no type, or none of
\* interval_hours, day_of_week and trigger_pattern, returns failure and
\* leaves the recurring table and the queue as they were; a dict that is
\* accepted is the last record of the table afterwards, with active true,
\* behind the records that were there.
C14_AddRecurringValidatesAndAppends ==
    ret.op = "add_recurring_task" =>
        /\ task_queue = ret.pre.task_queue
        /\ IF ret.arg.type = "none" \/ ~HasRecurrence(ret.arg)
           THEN /\ ret.result = FALSE
                /\ recurring_tasks = ret.pre.recurring_tasks
           ELSE /\ ret.result = TRUE
                /\ Len(recurring_tasks) = Len(ret.pre.recurring_tasks) + 1
                /\ SubSeq(recurring_tasks, 1, Len(ret.pre.recurring_tasks))
                      = ret.pre.recurring_tasks
                /\ LET new == recurring_tasks[Len(recurring_tasks)]
                   IN  /\ new.active = TRUE
                       /\ new.type = ret.arg.type
                       /\ new.interval_hours = ret.arg.interval_hours
                       /\ new.day_of_week = ret.arg.day_of_week
                       /\ new.hour_of_day = ret.arg.hour_of_day
                       /\ new.trigger_pattern = ret.arg.trigger_pattern

\* a dict with a type and no recurrence is rejected by an engine that holds
\* a recurring record and a task
C14_NoRecurrenceRejected ==
    /\ ret.op = "add_recurring_task"
    /\ ret.arg = NoRecurrence
    /\ ret.result = FALSE
    /\ Len(recurring_tasks) = 1
    /\ task_queue # <<>>

\* the number of the keys interval_hours, day_of_week and trigger_pattern
\* that the dict has
Discriminators(r) ==
    (IF r.interval_hours # Absent THEN 1 ELSE 0)
    + (IF r.day_of_week # Absent THEN 1 ELSE 0)
    + (IF r.trigger_pattern # "none" THEN 1 ELSE 0)

\* C15: add_recurring_task accepts a dict only if it has exactly one of
\* interval_hours, day_of_week and trigger_pattern; a dict with two or more
\* of them is rejected, and so every record of the recurring table has
\* exactly one of them.
C15_ExactlyOneRecurrenceVariant ==
    /\ \A k \in 1..Len(recurring_tasks) :
          Discriminators(recurring_tasks[k]) = 1
    /\ (ret.op = "add_recurring_task" /\ Discriminators(ret.arg) # 1)
          => ret.result = FALSE

\* what a step may do to the recurring table
RecurringTableStep ==
    /\ Len(recurring_tasks') >= Len(recurring_tasks)
    /\ \A k \in 1..Len(recurring_tasks) :
          [recurring_tasks'[k] EXCEPT
              !.last_execution = recurring_tasks[k].last_execution]
            = recurring_tasks[k]
    /\ Len(recurring_tasks') > Len(recurring_tasks)
          => /\ ret'.op = "add_recurring_task"
             /\ ret'.result = TRUE
             /\ Len(recurring_tasks') = Len(recurring_tasks) + 1
    /\ (\E k \in 1..Len(recurring_tasks) :
            recurring_tasks'[k] # recurring_tasks[k])
          => /\ thread.pc = "recurring"
             /\ Len(task_queue') = Len(task_queue) + 1

\* C16: no step of a scheduler cycle, no execution of a task and no
\* remove_task takes a record out of the recurring table or moves it; the
\* table grows only by an accepted add_recurring_task, and a firing changes
\* nothing of a record but its last_execution.
C16_RecurringTableOnlyGrows == [][RecurringTableStep]_vars

\* the copy of the first of two records was executed and then a remove_task
\* took a copy out of the queue, and both records are in the table, the
\* first one fired
C16_RecordsStayAfterFiringAndRemove ==
    /\ ret.op = "remove_task"
    /\ ret.result = TRUE
    /\ Len(recurring_tasks) = 2
    /\ recurring_tasks[1].last_execution # Absent
    /\ recurring_tasks[2].day_of_week = 0
    /\ \E i \in 1..Len(exec_count) : exec_count[i] > 0

\* ------------------------------------------------------------------------
\* The getters
\* ------------------------------------------------------------------------
\* a caller that takes the lists and keeps them while the foreground goes on
\* changing the engine
NextViews ==
    \/ AddTaskCall({t \in TaskInputs : /\ t.type # "none"
                                       /\ t.sched = Absent
                                       /\ t.rof # "true"}, ViewTasks)
    \/ RemoveTaskCall(0)
    \/ AddRecurringTaskCall({[NoRecurrence EXCEPT !.interval_hours = 1]},
                            ViewRecurring)
    \/ GetPendingTasks
    \/ GetRecurringTasks
    \/ ClearResult

SpecViews == Init /\ [][NextViews]_vars

\* C20: what get_pending_tasks and get_recurring_tasks return is a
\* snapshot: a list that has been returned holds what it held at the return
\* whatever the engine does to its queue or table afterwards, and changing
\* a returned list leaves the engine's queue and table as they were.
C20_GettersReturnSnapshots ==
    /\ held.which # "none" => ResultHeld = held.at_return
    /\ ret.op = "clear_result" =>
          /\ task_queue = ret.pre.task_queue
          /\ recurring_tasks = ret.pre.recurring_tasks

\* ------------------------------------------------------------------------
\* The writes of the file
\* ------------------------------------------------------------------------
\* the foreground call that has just returned changed the queue or the
\* recurring table
MutatingCallReturned ==
    /\ ret.op \in {"add_task", "add_recurring_task", "remove_task",
                   "process_input"}
    /\ \/ task_queue # ret.pre.task_queue
       \/ recurring_tasks # ret.pre.recurring_tasks

\* C21: a foreground call that has changed the queue or the recurring table
\* (add_task, add_recurring_task, remove_task, or a process_input that made
\* a task) has written the new state to the file before it returns: while
\* the file can be written, the file holds the queue and the table as the
\* call left them.
C21_MutatingCallWritesFile ==
    (MutatingCallReturned /\ writable) =>
        /\ disk.exists
        /\ disk.task_queue = DumpList(task_queue, TaskKeys)
        /\ disk.recurring_tasks = DumpList(recurring_tasks, RecurringKeys)

\* the foreground calls and a worker whose cycle saves, beside a file that
\* stops being writable and becomes writable again
NextFailure ==
    \/ AddTaskCall({t \in TaskInputs : /\ t.type # "none"
                                       /\ t.sched = Absent
                                       /\ t.rof = "false"}, FailureTasks)
    \/ RemoveTaskCall(0)
    \/ AddRecurringTaskCall({[NoRecurrence EXCEPT !.day_of_week = 0,
                                                  !.hour_of_day = 1]},
                            FailureRecurring)
    \/ ToggleStorage
    \/ StartBackgroundProcessing
    \/ BeginCycle(FailureCycles)
    \/ SweepStep
    \/ DeleteStep
    \/ RecurringStep(FailureTasks)
    \/ AnalyzeBehaviorPatterns(0)
    \/ MaybeSave(BOOLEAN)
    \/ Sleep
    \/ Backoff

SpecFailure == Init /\ [][NextFailure]_vars

\* the mutation the call that has just returned had to apply
MutationApplied ==
    CASE ret.op = "add_task" ->
            /\ Len(task_queue) = Len(ret.pre.task_queue) + 1
            /\ SubSeq(task_queue, 1, Len(ret.pre.task_queue))
                  = ret.pre.task_queue
            /\ task_queue[Len(task_queue)].type = ret.arg.type
            /\ recurring_tasks = ret.pre.recurring_tasks
      [] ret.op = "add_recurring_task" ->
            /\ Len(recurring_tasks) = Len(ret.pre.recurring_tasks) + 1
            /\ SubSeq(recurring_tasks, 1, Len(ret.pre.recurring_tasks))
                  = ret.pre.recurring_tasks
            /\ task_queue = ret.pre.task_queue
      [] ret.op = "remove_task" ->
            /\ task_queue = RemoveAt(ret.pre.task_queue, ret.arg)
            /\ recurring_tasks = ret.pre.recurring_tasks

\* C23: when the file cannot be written during add_task,
\* add_recurring_task or remove_task, the call returns success as it would
\* have, the queue and the recurring table hold the mutation, and the file
\* is as it was; and the step of a cycle that saves goes on to the sleep of
\* the cycle, whether the write failed or not, with the queue and the
\* table as they were.
C23_WriteFailureIsNotFatal ==
    /\ []((/\ ret.op \in {"add_task", "add_recurring_task", "remove_task"}
           /\ ~writable
           /\ ret.op = "add_task" => ret.arg.type # "none"
           /\ ret.op = "add_recurring_task"
                 => (ret.arg.type # "none" /\ HasRecurrence(ret.arg))
           /\ ret.op = "remove_task"
                 => (0 <= ret.arg /\ ret.arg < Len(ret.pre.task_queue)))
          => (/\ ret.result = TRUE
              /\ MutationApplied
              /\ disk = ret.pre.disk))
    /\ [][thread.pc \in {"analyze", "save"}
            => /\ thread'.pc \in {"analyze", "save", "sleep"}
               /\ thread'.pc # thread.pc
                     => (/\ task_queue' = task_queue
                         /\ recurring_tasks' = recurring_tasks)]_vars

\* a remove_task that returned success while the file could not be written:
\* the file still holds the task that is gone from the queue, and the
\* worker is in the sleep of a cycle
C23_RemovedWithStaleFile ==
    /\ ret.op = "remove_task"
    /\ ret.result = TRUE
    /\ ~writable
    /\ disk.exists
    /\ Len(disk.task_queue) = Len(task_queue) + 1
    /\ thread.pc = "sleep"

\* ------------------------------------------------------------------------
\* Construction from the file
\* ------------------------------------------------------------------------
\* an engine that fills its state and saves it, a file that is damaged or
\* whose thresholds are edited, and the construction of the next engine
NextFile ==
    \/ AddRecurringTaskCall({[NoRecurrence EXCEPT !.interval_hours = 1]},
                            FileRecurring)
    \/ ProcessInputCall(FileInputs, FileTasks)
    \/ SaveIntentDataCall
    \/ DamageFile
    \/ EditThresholds({90})
    \/ Restart

SpecFile == Init /\ [][NextFile]_vars

\* C22: when the file is missing, or cannot be read as the JSON object that
\* was written, the engine that is constructed has an empty queue, an empty
\* recurring table, an empty ledger, an empty pattern map and the default
\* thresholds: nothing of the file has been loaded, and the construction
\* ends with an engine that is there.
C22_FailedLoadGivesDefaults ==
    (/\ ret.op = "load"
     /\ ~ret.pre.disk.exists \/ ret.pre.disk.form # "object") =>
        /\ task_queue = <<>>
        /\ recurring_tasks = <<>>
        /\ behavior_history = <<>>
        /\ intent_patterns = <<>>
        /\ thresholds = DefaultThresholds
        /\ active
        /\ thread = NoThread

\* an engine constructed from a file that was cut short after it had been
\* written with a task, a recurring record and records of the ledger, and
\* its thresholds edited
C22_ConstructedFromTruncatedFile ==
    /\ ret.op = "load"
    /\ disk.form = "truncated"
    /\ disk.task_queue # <<>>
    /\ disk.recurring_tasks # <<>>
    /\ disk.behavior_history # <<>>
    /\ disk.thresholds # DefaultThresholds

\* ------------------------------------------------------------------------
\* The ledger
\* ------------------------------------------------------------------------
\* process_input calls that fill the ledger, beside a worker whose cycle
\* saves the state
NextLedger ==
    \/ ProcessInputBounded({<<"weather">>}, {NoContext}, LedgerRecords,
                           LedgerTasks)
    \/ StartBackgroundProcessing
    \/ BeginCycle(LedgerCycles)
    \/ SweepStep
    \/ DeleteStep
    \/ RecurringStep(LedgerTasks)
    \/ AnalyzeBehaviorPatterns(0)
    \/ BeginSave
    \/ EndSave
    \/ Sleep

SpecLedger == Init /\ [][NextLedger]_vars

\* the records of h are numbered without a gap, in the order of the numbers
Consecutive(h) ==
    \A k \in 1..(Len(h) - 1) : h[k + 1].seq = h[k].seq + 1

\* C24: after n records have been appended, the ledger in memory holds the
\* most recent min(n, 200) of them, in the order in which they were
\* appended: a record leaves the ledger only as the oldest one when there
\* are more than 200.
C24_LedgerHoldsMostRecent ==
    /\ Consecutive(behavior_history)
    /\ Len(behavior_history)
          = Min(NextSeq(behavior_history) - 1, HistoryLimit)

\* C25: a file that has been written holds at most 100 records of the
\* ledger, and they are records that were appended one after the other, in
\* that order.
C25_FileHoldsAtMostHundred ==
    disk.exists =>
        /\ Len(disk.behavior_history) <= SaveHistoryLimit
        /\ Consecutive(disk.behavior_history)

\* ------------------------------------------------------------------------
\* Confidences
\* ------------------------------------------------------------------------
\* texts of every rule and of none, classified in the contexts that change
\* a confidence, beside a worker that finds patterns
NextConfidence ==
    \/ RecognizeIntentCall({<<"remember">>, <<"meeting">>, <<"find">>,
                             <<"call">>, <<"help">>, <<"weather">>},
                           {[NoContext EXCEPT !.app = "messaging"],
                            [NoContext EXCEPT !.app = "calendar"],
                            [NoContext EXCEPT !.time = 6]},
                           ConfidenceCalls)
    \/ StartBackgroundProcessing
    \/ BeginCycle(ConfidenceCycles)
    \/ SweepStep
    \/ DeleteStep
    \/ RecurringStep(ConfidenceTasks)
    \/ AnalyzeBehaviorPatterns(ConfidencePatterns)
    \/ MaybeSave({FALSE})
    \/ Sleep

SpecConfidence == Init /\ [][NextConfidence]_vars

\* C26: every confidence the engine produces is in [0, 1] (0..100 in
\* hundredths): the confidence of every intent the classifier returns,
\* after the context has been applied, and the confidence of every pattern
\* in the pattern map.
C26_ConfidencesInUnitInterval ==
    /\ \A j \in 1..Len(cls.seen) :
          /\ 0 <= cls.seen[j].intent.confidence
          /\ cls.seen[j].intent.confidence <= 100
    /\ \A k \in DOMAIN intent_patterns :
          /\ 0 <= intent_patterns[k].confidence
          /\ intent_patterns[k].confidence <= 100

\* a communication intent classified in the messaging app, with its boost,
\* on an engine whose pattern map holds a time pattern and a sequence
\* pattern
C26_BoostedIntentAndTwoPatterns ==
    /\ cls.called
    /\ cls.intent.primary = "communication"
    /\ cls.context.app = "messaging"
    /\ cls.intent.confidence = 90
    /\ Cardinality(DOMAIN intent_patterns) = 2
    /\ intent_patterns[1].type = "time_pattern"
    /\ intent_patterns[2].type = "sequence_pattern"

\* ------------------------------------------------------------------------
\* The thresholds
\* ------------------------------------------------------------------------
\* C27: process_input makes a task of a classified intent only when the
\* confidence of the intent reaches the auto_complete threshold the engine
\* is configured with; with a confidence below that threshold the queue is
\* as it was.
C27_AutoCreateGatedByThreshold ==
    (/\ ret.op = "process_input"
     /\ ret.intent.confidence < thresholds.auto_complete) =>
        task_queue = ret.pre.task_queue

\* ------------------------------------------------------------------------
\* The firings of the recurring sweep
\* ------------------------------------------------------------------------
\* the step is a firing: the sweep in progress notes one more record
FiringStep ==
    /\ rs.state = "run"
    /\ rs'.state = "run"
    /\ Len(rs'.fired) = Len(rs.fired) + 1

\* what a firing of the record at position k does
FiresRecord(k) ==
    /\ k = thread.rit + 1
    /\ Len(task_queue') = Len(task_queue) + 1
    /\ SubSeq(task_queue', 1, Len(task_queue)) = task_queue
    /\ task_queue'[Len(task_queue')].copy_of = k
    /\ task_queue'[Len(task_queue')].type = recurring_tasks[k].type
    /\ task_queue'[Len(task_queue')].sched = thread.now
    /\ recurring_tasks' =
          [recurring_tasks EXCEPT ![k].last_execution = thread.now]

\* C28: a firing of a recurring record appends exactly one task at the end
\* of the queue, a copy of the record scheduled for the now of the sweep,
\* and makes that same now the last_execution of the record; and one sweep
\* fires a record at most once.
C28_FiringAppendsOneCopy ==
    /\ [][FiringStep => FiresRecord(rs'.fired[Len(rs'.fired)])]_vars
    /\ [](rs.state \in {"run", "done"} =>
            \A i, j \in 1..Len(rs.fired) :
                rs.fired[i] = rs.fired[j] => i = j)

\* the second firing of a record, in a sweep after hour 0: its copy is the
\* last task of the queue, scheduled for the now that is the record's
\* last_execution
C28_SecondFiringCopied ==
    /\ rs.state = "done"
    /\ rs.fired = <<1>>
    /\ rs.now > 0
    /\ Len(rs.pre) = 1
    /\ rs.pre[1].last_execution = 0
    /\ task_queue # <<>>
    /\ task_queue[Len(task_queue)].copy_of = 1
    /\ task_queue[Len(task_queue)].sched = rs.now
    /\ recurring_tasks[1].last_execution = rs.now

\* the weekly rule: the weekday of now is the record's day, the record has
\* not fired on the date of now, and the hour of now is the record's hour
\* if it has one
WeeklyDue(rec, now) ==
    /\ Weekday(now) = rec.day_of_week
    /\ \/ rec.last_execution = Absent
       \/ Date(rec.last_execution) # Date(now)
    /\ rec.hour_of_day # Absent => Hour(now) = rec.hour_of_day

\* C29: a recurring sweep fires an active record with a day_of_week exactly
\* when the weekday of its now is that day, the record has no
\* last_execution or one on another date than now, and the record has no
\* hour_of_day or the hour of now is that hour; so the record fires at most
\* once on a date and on no other weekday.
C29_WeeklyTaskFiresOnItsDay ==
    rs.state = "done" =>
        \A k \in 1..Len(rs.pre) :
            LET rec == rs.pre[k] IN
            (rec.active /\ rec.day_of_week # Absent) =>
                (FiredBy(rs, k) <=> WeeklyDue(rec, rs.now))

\* a caller that adds interval and weekly records, takes the table
\* and deactivates records of it, beside the worker and the clock
NextActive ==
    \/ AddRecurringTaskCall({[NoRecurrence EXCEPT !.interval_hours = 1],
                             [NoRecurrence EXCEPT !.day_of_week = 0]},
                            ActiveRecords)
    \/ GetRecurringTasks
    \/ DeactivateResult
    \/ StartBackgroundProcessing
    \/ BeginCycle(ActiveCycles)
    \/ SweepStep
    \/ DeleteStep
    \/ RecurringStep(ActiveFirings)
    \/ AnalyzeBehaviorPatterns(0)
    \/ MaybeSave({FALSE})
    \/ Sleep
    \/ Tick(ActiveTime)

SpecActive == Init /\ [][NextActive]_vars

\* what a step may do with the record at position k while its active is
\* false: the record is as it was and no copy of it is appended
InactiveUntouched(k) ==
    /\ recurring_tasks'[k] = recurring_tasks[k]
    /\ Len(task_queue') > Len(task_queue)
          => task_queue'[Len(task_queue')].copy_of # k
    /\ FiringStep => rs'.fired[Len(rs'.fired)] # k

\* C30: a recurring record whose active is false does not fire: no step
\* appends a copy of it to the queue or changes its last_execution,
\* whatever its recurrence and the time.
C30_InactiveNeverFires ==
    [][\A k \in 1..Len(recurring_tasks) :
          ~recurring_tasks[k].active => InactiveUntouched(k)]_vars

\* a sweep at hour 1 has passed over a record with an interval of one hour
\* that fired at hour 0 and was deactivated since
C30_DueRecordPassedOver ==
    /\ rs.state = "done"
    /\ rs.now = 1
    /\ rs.fired = <<>>
    /\ Len(rs.pre) = 1
    /\ ~rs.pre[1].active
    /\ rs.pre[1].interval_hours = 1
    /\ rs.pre[1].last_execution = 0
    /\ recurring_tasks[1].last_execution = 0

\* ------------------------------------------------------------------------
\* The order of the steps of a cycle
\* ------------------------------------------------------------------------
\* the worker with every step of its cycle doing its work: tasks that are
\* executed or make the sweep raise, a recurring record that fires, patterns
\* that are found, and the draw of the periodic save going both ways
NextCycle ==
    \/ AddTaskCall({t \in TaskInputs : /\ t.type # "none"
                                       /\ t.sched \in {Absent, BadTime}
                                       /\ t.rof = "absent"}, CycleTasks)
    \/ AddRecurringTaskCall({[NoRecurrence EXCEPT !.interval_hours = 1]},
                            CycleRecurring)
    \/ StartBackgroundProcessing
    \/ BeginCycle(CycleCycles)
    \/ SweepStep
    \/ DeleteStep
    \/ RecurringStep(CycleTasks)
    \/ AnalyzeBehaviorPatterns(CyclePatterns)
    \/ MaybeSave(BOOLEAN)
    \/ Sleep
    \/ Backoff

SpecCycle == Init /\ [][NextCycle]_vars

\* the places of the worker in the order of lines 138-154, each with the
\* one that follows it
CycleOrder ==
    {<<"check", "sweep">>, <<"sweep", "delete">>, <<"delete", "recurring">>,
     <<"recurring", "analyze">>, <<"analyze", "save">>, <<"save", "sleep">>,
     <<"sleep", "check">>}

\* the ways out of the order: a thread is started, a step raises and the
\* cycle is given up, the loop ends at its head
CycleExits ==
    {<<"none", "check">>, <<"dead", "check">>, <<"sweep", "backoff">>,
     <<"delete", "backoff">>, <<"backoff", "check">>, <<"check", "dead">>}

\* a step of the worker, as opposed to a call from the foreground
WorkerStep == ret' = NoCall /\ IsAlive

\* C31: in every cycle the worker goes from the due-task sweep to the
\* recurring sweep, to the mining, to the periodic save and to the sleep,
\* in this order, and each piece of work is done in its own step only:
\* executions are recorded and tasks deleted in the due-task sweep, copies
\* are appended and records marked in the recurring sweep, patterns are put
\* in the mining, and the worker writes the file in the mining or the save.
C31_CycleStepsInOrder ==
    /\ [][thread'.pc # thread.pc
            => <<thread.pc, thread'.pc>> \in CycleOrder \cup CycleExits]_vars
    /\ [][WorkerStep =>
            /\ NextSeq(behavior_history') # NextSeq(behavior_history)
                    => thread.pc = "sweep"
            /\ Len(task_queue') < Len(task_queue) => thread.pc = "delete"
            /\ Len(task_queue') > Len(task_queue) => thread.pc = "recurring"
            /\ recurring_tasks' # recurring_tasks => thread.pc = "recurring"
            /\ intent_patterns' # intent_patterns => thread.pc = "analyze"
            /\ disk' # disk => thread.pc \in {"analyze", "save"}]_vars
    /\ [](/\ sw.state = "run" => thread.pc = "sweep"
          /\ sw.state = "executed" => thread.pc = "delete"
          /\ rs.state = "run"
                => thread.pc = "recurring" /\ sw.state \in {"done", "none"})

\* the worker sleeps at the end of its second cycle, in which the sweep
\* executed and deleted a task, the record fired, a pattern was found and
\* the save wrote the file with the copy in the queue
C31_SecondCycleAllStepsDone ==
    /\ thread.pc = "sleep"
    /\ cycles = 2
    /\ Len(behavior_history) >= 1
    /\ Len(recurring_tasks) = 1
    /\ recurring_tasks[1].last_execution = thread.now
    /\ Len(task_queue) >= 1
    /\ task_queue[Len(task_queue)].copy_of = 1
    /\ DOMAIN intent_patterns # {}
    /\ disk.exists
    /\ disk.task_queue = DumpList(task_queue, TaskKeys)

\* ------------------------------------------------------------------------
\* Executions and the ledger
\* ------------------------------------------------------------------------
\* tasks with no scheduled_time, kept on failure or not, beside a worker
\* whose executions succeed or fail
NextRetry ==
    \/ AddTaskCall({t \in TaskInputs : /\ t.type # "none"
                                       /\ t.sched = Absent
                                       /\ t.rof \in {"absent", "false"}},
                   RetryTasks)
    \/ StartBackgroundProcessing
    \/ BeginCycle(RetryCycles)
    \/ SweepStep
    \/ DeleteStep
    \/ RecurringStep(RetryTasks)
    \/ AnalyzeBehaviorPatterns(0)
    \/ MaybeSave({FALSE})
    \/ Sleep

SpecRetry == Init /\ [][NextRetry]_vars

\* a step in which the sweep attempts a task: _execute_task is called
AttemptStep ==
    /\ sw.state = "run"
    /\ sw'.state = "run"
    /\ Len(sw'.exec) = Len(sw.exec) + 1

\* the task of the attempt made in this step
Attempted == sw'.exec[Len(sw'.exec)].task

\* C32: every attempt to execute a task, whether it succeeds or fails,
\* appends one task_execution record of that task to the ledger, while the
\* task is still in the queue and before the sweep has put it on or left it
\* off its list of removals for good; the worker appends no record in any
\* other step, so the records appended are as many as the attempts.
C32_EveryAttemptRecorded ==
    /\ [][AttemptStep =>
            /\ NextSeq(behavior_history') = NextSeq(behavior_history) + 1
            /\ behavior_history'[Len(behavior_history')].type
                    = "task_execution"
            /\ behavior_history'[Len(behavior_history')].ref = Attempted.id
            /\ task_queue' = task_queue
            /\ Attempted.id \in IdSet(task_queue)]_vars
    /\ [][(WorkerStep /\ ~AttemptStep)
            => NextSeq(behavior_history') = NextSeq(behavior_history)]_vars

\* a sweep has attempted a task that is kept on failure a second time and
\* failed again: two records of it are in the ledger and it is in the queue
C32_FailedTwiceRecordedTwice ==
    /\ sw.state = "done"
    /\ Len(sw.exec) >= 1
    /\ ~sw.exec[1].ok
    /\ sw.exec[1].task.rof = "false"
    /\ exec_count[sw.exec[1].task.id] = 2
    /\ sw.exec[1].task.id \in IdSet(task_queue)
    /\ Cardinality({k \in 1..Len(behavior_history) :
            /\ behavior_history[k].type = "task_execution"
            /\ behavior_history[k].ref = sw.exec[1].task.id}) = 2

\* the tasks kept on failure that were due when the sweep began and that an
\* earlier sweep had attempted
RetriedTasks ==
    {k \in 1..Len(sw.pre) :
        /\ sw.pre[k].rof = "false"
        /\ sw.pre[k].sched = Absent \/ TimeHasCome(sw.pre[k], sw.now)
        /\ exec_count[sw.pre[k].id]
                > (IF sw.pre[k].id \in SweepExecuted THEN 1 ELSE 0)}

\* C33: a due task that is kept on failure and whose execution has failed
\* is attempted again by every sweep for as long as it is in the queue
\* (unless a caller removes it meanwhile);
\* after a sweep with no foreground call in between, it is out of the queue
\* if the attempt succeeded, and otherwise it is in the queue, between the
\* same tasks of those that stay.
C33_FailedTaskRetriedUntilSuccess ==
    /\ PassOver =>
          \A k \in RetriedTasks :
              sw.pre[k].id \in IdSet(task_queue)
                  => sw.pre[k].id \in SweepExecuted
    /\ (sw.state \in {"done", "raised"} /\ ~sw.fg) =>
          /\ \A k \in RetriedTasks :
                sw.pre[k].id \in IdSet(task_queue)
                    <=> sw.pre[k].id \notin SweepSucceeded
          /\ task_queue = SelectSeq2(sw.pre, IdSet(task_queue))

\* the same for the sweeps that end without raising and with no foreground
\* call in between, which holds
RetriedWhenNothingRaises ==
    (sw.state = "done" /\ ~sw.fg) =>
        /\ \A k \in RetriedTasks :
              /\ sw.pre[k].id \in SweepExecuted
              /\ sw.pre[k].id \in IdSet(task_queue)
                    <=> sw.pre[k].id \notin SweepSucceeded
        /\ task_queue = SelectSeq2(sw.pre, IdSet(task_queue))

\* ------------------------------------------------------------------------
\* The pattern map
\* ------------------------------------------------------------------------
\* a worker that finds patterns and writes them, is stopped, and an engine
\* constructed again from the file, which the operator may have edited
NextMined ==
    \/ StartBackgroundProcessing
    \/ StopBackgroundProcessing
    \/ BeginCycle(MinedCycles)
    \/ SweepStep
    \/ DeleteStep
    \/ RecurringStep(0)
    \/ AnalyzeBehaviorPatterns(MinedPatterns)
    \/ MaybeSave({FALSE})
    \/ Sleep
    \/ EditPatterns
    \/ Restart

SpecMined == Init /\ [][NextMined]_vars

\* a step of the mining that puts patterns
MiningStep ==
    /\ WorkerStep
    /\ thread.pc = "analyze"
    /\ intent_patterns' # intent_patterns

\* C34: a mining run stores each pattern it adds under an id that no entry
\* of the map has, whatever map the engine holds: after the run the map has
\* more entries than before, and every entry it had is there unchanged.
C34_MiningAddsUnderFreshIds ==
    [][MiningStep =>
        /\ Cardinality(DOMAIN intent_patterns')
                > Cardinality(DOMAIN intent_patterns)
        /\ \A x \in DOMAIN intent_patterns :
                /\ x \in DOMAIN intent_patterns'
                /\ intent_patterns'[x] = intent_patterns[x]]_vars

\* ------------------------------------------------------------------------
\* The queue under errors
\* ------------------------------------------------------------------------
\* the task with this id is in the queue, its fields are well formed and it
\* is due
DueInQueue(id) ==
    \E k \in 1..Len(task_queue) :
        /\ task_queue[k].id = id
        /\ task_queue[k].sched # BadTime
        /\ IsDue(task_queue[k], clock)

\* the task with this id has been executed and is out of the queue
ExecutedAndRemoved(id) ==
    /\ id <= Len(exec_count)
    /\ exec_count[id] >= 1
    /\ id \notin IdSet(task_queue)

\* C35: a sweep that raises has removed the tasks it executed before it
\* raised (those that succeeded or are not kept on failure), and a due task
\* with well-formed fields that is in the queue of a running worker comes
\* to be executed and removed, whatever else is in the queue (unless a stop
\* takes the flag down, and as long as the cycles counted stay below
\* LoopCycles).
C35_QueueAvailableUnderErrors ==
    /\ [](sw.state = "raised" =>
            \A k \in 1..Len(sw.exec) :
                ShouldRemove(sw.exec[k].ok, sw.exec[k].task)
                    => sw.exec[k].task.id \notin IdSet(task_queue))
    /\ \A id \in 1..LoopTasks :
            (DueInQueue(id) /\ active /\ IsAlive /\ cycles < LoopCycles)
                ~> (ExecutedAndRemoved(id) \/ ~active)

\* the second part alone: the task behind one that makes the sweep raise
C35_DueTaskComesToBeExecuted ==
    \A id \in 1..LoopTasks :
        (DueInQueue(id) /\ active /\ IsAlive /\ cycles < LoopCycles)
            ~> (ExecutedAndRemoved(id) \/ ~active)

\* ------------------------------------------------------------------------
\* Appends to the ledger from two threads
\* ------------------------------------------------------------------------
\* the first input of the caller asks for a reminder
AskReminderFirst ==
    /\ behavior_history = <<>>
    /\ ProcessInputBounded({<<"remember">>}, {NoContext}, RaceRecords,
                           RaceReminders)

\* the inputs that follow ask for nothing
SendOtherInput ==
    /\ behavior_history # <<>>
    /\ ProcessInputBounded({<<"weather">>}, {NoContext}, RaceRecords,
                           RaceTasks)

\* the caller starts the worker when the ledger is full
StartWhenLedgerFull ==
    /\ Len(behavior_history) >= HistoryLimit
    /\ StartBackgroundProcessing

\* a caller that asks for a reminder and goes on sending input, which fills
\* the ledger, and then starts the worker, which executes the reminder;
\* nothing is saved
NextRace ==
    \/ AskReminderFirst
    \/ SendOtherInput
    \/ StartWhenLedgerFull
    \/ BeginCycle(RaceCycles)
    \/ SweepStep
    \/ RecordAppend
    \/ RecordCut
    \/ DeleteStep
    \/ RecurringStep(RaceTasks)
    \/ AnalyzeBehaviorPatterns(0)
    \/ MaybeSave({FALSE})
    \/ Sleep

SpecRace == Init /\ [][NextRace]_vars

\* the record is in the ledger h
InLedger(rec, h) == \E k \in 1..Len(h) : h[k] = rec

\* C36: no record appended to the ledger is lost when the worker and
\* process_input append to it at the same time: from one step to the next
\* every record of the ledger stays in it, unless the ledger is at its
\* bound of 200 and the record is older than all that it holds.
C36_NoAppendedRecordLost ==
    [][\A k \in 1..Len(behavior_history) :
          \/ InLedger(behavior_history[k], behavior_history')
          \/ /\ Len(behavior_history') = HistoryLimit
             /\ behavior_history[k].seq < behavior_history'[1].seq]_vars

\* ------------------------------------------------------------------------
\* From a firing to the execution
\* ------------------------------------------------------------------------
\* the copies of recurring records that were in the queue when the sweep
\* began: the recurring sweeps of earlier cycles made them
CopiesBefore == {k \in 1..Len(sw.pre) : sw.pre[k].copy_of # 0}

\* C37: the copy a firing appends is not executed in the cycle of the
\* firing (a sweep attempts only copies that were in the queue when it
\* began); the due-task sweep of the next cycle executes it (unless a
\* caller removes it meanwhile), and after that sweep, with no foreground
\* call in between, it has been executed once and is out of the queue.
C37_CopyExecutedOnceNextCycle ==
    /\ [][(AttemptStep /\ Attempted.copy_of # 0)
            => Attempted.id \in IdSet(sw.pre)]_vars
    /\ [](PassOver =>
            \A k \in CopiesBefore :
                sw.pre[k].id \in IdSet(task_queue)
                    => sw.pre[k].id \in SweepExecuted)
    /\ []((sw.state \in {"done", "raised"} /\ ~sw.fg) =>
            \A k \in CopiesBefore :
                /\ exec_count[sw.pre[k].id] = 1
                /\ sw.pre[k].id \notin IdSet(task_queue))

\* ------------------------------------------------------------------------
\* A start after a stop
\* ------------------------------------------------------------------------
\* C38: when start_background_processing returns, a worker is alive and
\* the flag of the loop is up, whatever calls of start and stop came before
\* and wherever the worker of before is in its cycle; and from then on the
\* worker comes to begin a cycle, unless a stop takes the flag down (and as
\* long as the cycles counted stay below LoopCycles).
C38_StartAfterStopRuns ==
    /\ [](ret.op = "start" => (active /\ IsAlive))
    /\ (ret.op = "start" /\ cycles < LoopCycles)
          ~> (thread.pc = "sweep" \/ ~active)

\* the same for the starts that find no worker alive, which holds
StartWithNoWorkerAliveRuns ==
    /\ []((ret.op = "start" /\ ~ret.alive) => (active /\ IsAlive))
    /\ (ret.op = "start" /\ ~ret.alive /\ cycles < LoopCycles)
          ~> (thread.pc = "sweep" \/ ~active)

\* ------------------------------------------------------------------------
\* What process_input changes
\* ------------------------------------------------------------------------
\* process_input on an engine that has a recurring record and a worker
\* that fires it and finds patterns
NextInput ==
    \/ ProcessInputCall(InputCalls, InputTasks)
    \/ AddRecurringTaskCall({[NoRecurrence EXCEPT !.interval_hours = 1]},
                            InputRecurring)
    \/ StartBackgroundProcessing
    \/ BeginCycle(InputCycles)
    \/ SweepStep
    \/ DeleteStep
    \/ RecurringStep(InputTasks)
    \/ AnalyzeBehaviorPatterns(InputPatterns)
    \/ MaybeSave({FALSE})
    \/ Sleep

SpecInput == Init /\ [][NextInput]_vars

\* the intent has a time entity
HasTimeEntity(intent) == \E e \in intent.entities : e[1] = "time"

\* C39: a call of process_input leaves the recurring table and the pattern
\* map as they are; when the label is reminder and the confidence above 0.7
\* it appends one task of type reminder to the queue, whose scheduled_time
\* is one hour after now if a time entity was extracted and absent if not;
\* with any other label it leaves the queue as it is.
C39_ProcessInputFrame ==
    [][ret'.op = "process_input" =>
        /\ recurring_tasks' = recurring_tasks
        /\ intent_patterns' = intent_patterns
        /\ IF ret'.intent.primary = "reminder" /\ ret'.intent.confidence > 70
           THEN /\ Len(task_queue') = Len(task_queue) + 1
                /\ SubSeq(task_queue', 1, Len(task_queue)) = task_queue
                /\ task_queue'[Len(task_queue')].type = "reminder"
                /\ task_queue'[Len(task_queue')].sched
                        = IF HasTimeEntity(ret'.intent)
                          THEN clock + 1 ELSE Absent
           ELSE task_queue' = task_queue]_vars

\* process_input has returned with a reminder for one hour later behind
\* the copy of a firing, on an engine with a pattern
C39_ReminderWithTimeAfterFiring ==
    /\ ret.op = "process_input"
    /\ ret.intent.primary = "reminder"
    /\ HasTimeEntity(ret.intent)
    /\ Len(task_queue) = 2
    /\ task_queue[1].copy_of = 1
    /\ task_queue[2].sched = clock + 1
    /\ Len(recurring_tasks) = 1
    /\ DOMAIN intent_patterns # {}

\* ------------------------------------------------------------------------
\* Tasks appended during a sweep
\* ------------------------------------------------------------------------
\* the tasks the sweep has deleted that were not in the queue when it
\* began: the foreground appended them while it was in progress
DeletedNewcomers == sw.deleted \ IdSet(sw.pre)

\* C40: a sweep deletes a task that the foreground appended while it was in
\* progress only if it has executed it; a task it has not executed stays
\* in the queue, as far as the sweep is concerned.
C40_AppendedTaskNotDeletedUnexecuted ==
    sw.state # "none" => DeletedNewcomers \subseteq SweepExecuted

=============================================================================
